---- MODULE Spec2Model ----
(***************************************************************************)
(* Model of the Landscape Terraform provider's script resources and data   *)
(* sources: the handlers of internal/provider, the projections of remote   *)
(* script payloads into Terraform state, and the remote calls they issue.  *)
(*                                                                         *)
(* Go strings are modelled as sequences of bytes, so that upper-casing,    *)
(* decimal formatting, base64 and string concatenation are computed and    *)
(* not assumed.  A Go pointer is None or Some(x); a Terraform attribute    *)
(* value is TfNull, TfUnknown or TfVal(x).                                 *)
(***************************************************************************)
EXTENDS Integers, Sequences, FiniteSets, TLC

VARIABLES
    last,      \* outcome of the most recent handler or projection call
    remote,    \* the remote script store: script id -> stored script or NoScript
    tfV1,      \* Terraform state of one landscape_script_v1 resource instance
    made       \* what the most recent successful legacy Create planned, until the next mutation

vars == <<last, remote, tfV1, made>>

----------------------------------------------------------------------------
(* Bounds of the model *)

MaxId == 2          \* script ids are 1..MaxId
MaxAtt == 2         \* longest attachment collection

----------------------------------------------------------------------------
(* Go pointers and Terraform attribute values *)

None == <<>>
Some(x) == <<x>>
IsSome(o) == Len(o) = 1
Deref(o) == o[1]

TfNull == <<"null">>
TfUnknown == <<"unknown">>
TfVal(x) == <<"known", x>>
IsNull(v) == v[1] = "null"
IsUnknown(v) == v[1] = "unknown"
IsKnown(v) == v[1] = "known"

\* basetypes.StringValue.ValueString: "" for null and unknown
ValueString(v) == IF IsKnown(v) THEN v[2] ELSE <<>>
\* basetypes.Int64Value.ValueInt64: 0 for null and unknown
ValueInt64(v) == IF IsKnown(v) THEN v[2] ELSE 0
\* types.StringPointerValue / Int64PointerValue / BoolPointerValue
PointerValue(o) == IF IsSome(o) THEN TfVal(Deref(o)) ELSE TfNull
\* the zero value of types.String, types.List: a null value
ZeroTfValue == TfNull

----------------------------------------------------------------------------
(* Strings as bytes *)

sV1 == <<86, 49>>                          \* "V1"
sV2 == <<86, 50>>                          \* "V2"
sv1 == <<118, 49>>                         \* "v1"
sACTIVE == <<65, 67, 84, 73, 86, 69>>      \* "ACTIVE"
sARCHIVED == <<65, 82, 67, 72, 73, 86, 69, 68>>     \* "ARCHIVED"
sREDACTED == <<82, 69, 68, 65, 67, 84, 69, 68>>     \* "REDACTED"
sArchived == <<65, 114, 99, 104, 105, 118, 101, 100>>   \* "Archived"
sEmpty == <<>>
sT == <<116>>                              \* "t"
sU == <<117>>                              \* "u"
sJan == <<106, 97, 110>>                   \* "jan"
sBash == <<47, 98, 105, 110, 47, 115, 104>>    \* "/bin/sh"
sEcho == <<101, 99, 104, 111>>             \* "echo"
sHi == <<104, 105>>                        \* "hi"
sA == <<97>>                               \* "a"
sB == <<98>>                               \* "b"
sBin == <<255, 0, 10>>                     \* three bytes that are not text

\* strings.ToUpper on ASCII
UpperByte(b) == IF b >= 97 /\ b <= 122 THEN b - 32 ELSE b
ToUpper(s) == [i \in 1..Len(s) |-> UpperByte(s[i])]
\* strings.EqualFold on ASCII
EqualFold(a, b) == ToUpper(a) = ToUpper(b)

\* strconv.Itoa / fmt.Sprint of a non-negative integer
RECURSIVE Itoa(_)
Itoa(n) == IF n < 10 THEN <<48 + n>> ELSE Itoa(n \div 10) \o <<48 + (n % 10)>>

\* base64.StdEncoding
B64Char(i) ==
    IF i < 26 THEN 65 + i
    ELSE IF i < 52 THEN 97 + (i - 26)
    ELSE IF i < 62 THEN 48 + (i - 52)
    ELSE IF i = 62 THEN 43 ELSE 47

RECURSIVE EncodeToString(_)
EncodeToString(s) ==
    IF Len(s) = 0 THEN <<>>
    ELSE IF Len(s) = 1 THEN
        <<B64Char(s[1] \div 4), B64Char((s[1] % 4) * 16), 61, 61>>
    ELSE IF Len(s) = 2 THEN
        <<B64Char(s[1] \div 4), B64Char((s[1] % 4) * 16 + s[2] \div 16),
          B64Char((s[2] % 16) * 4), 61>>
    ELSE
        <<B64Char(s[1] \div 4), B64Char((s[1] % 4) * 16 + s[2] \div 16),
          B64Char((s[2] % 16) * 4 + s[3] \div 64), B64Char(s[3] % 64)>>
        \o EncodeToString(SubSeq(s, 4, Len(s)))

\* fmt.Sprintf("#!%s\n%s", interpreter, code)
SprintfShebang(interpreter, code) == <<35, 33>> \o interpreter \o <<10>> \o code

----------------------------------------------------------------------------
(* JSON values returned by the remote API, and their decoding by the       *)
(* generated client (json.Unmarshal into the V1Script and V2Script         *)
(* structs: absent keys leave zero values, a value of the wrong JSON type  *)
(* is an error).                                                           *)

\* one element of a script's "attachments" array: a bare filename string
\* or an {id, filename} object
AttStr(name) == [k |-> "str", id |-> 0, filename |-> name]
AttObj(id, name) == [k |-> "obj", id |-> id, filename |-> name]

NoCreator == [id |-> None, name |-> None, email |-> None]

\* the JSON object {} : every key absent
EmptyObject ==
    [json |-> "object", text |-> <<>>,
     id |-> 0, title |-> <<>>, status |-> <<>>,
     access_group |-> None, username |-> None, time_limit |-> None,
     creator |-> NoCreator,
     created_by |-> None, last_edited_by |-> None,
     created_at |-> None, last_edited_at |-> None,
     version_number |-> None,
     is_editable |-> None, is_executable |-> None, is_redactable |-> None,
     interpreter |-> None, code |-> None,
     attachments |-> None, script_profiles |-> None]

\* a JSON string, as GetScriptCode returns
JsonString(t) == [EmptyObject EXCEPT !.json = "string", !.text = t]
\* a JSON value that is neither an object nor a string
JsonOther == [EmptyObject EXCEPT !.json = "other"]

\* a legacy script as the remote serialises it
RawV1(id, title, username, timeLimit, atts) ==
    [EmptyObject EXCEPT !.id = id, !.title = title, !.status = sV1,
                        !.username = username, !.time_limit = timeLimit,
                        !.creator = [id |-> Some(7), name |-> Some(sJan), email |-> None],
                        !.attachments = atts]

\* a modern script as the remote serialises it
RawV2(id, title, status, username, timeLimit, interp, code, atts) ==
    [EmptyObject EXCEPT !.id = id, !.title = title, !.status = status,
                        !.username = username, !.time_limit = timeLimit,
                        !.created_by = Some([id |-> Some(7), name |-> Some(sJan)]),
                        !.version_number = Some(1),
                        !.is_editable = Some(TRUE), !.is_executable = Some(TRUE),
                        !.is_redactable = Some(FALSE),
                        !.interpreter = interp, !.code = code,
                        !.attachments = atts]

AllStr(items) == \A i \in 1..Len(items) : items[i].k = "str"
AllObj(items) == \A i \in 1..Len(items) : items[i].k = "obj"

\* Script_Attachments_Item.AsLegacyScriptAttachment / AsScriptAttachment
AsLegacyScriptAttachment(a) == [ok |-> a.k = "str", v |-> IF a.k = "str" THEN a.filename ELSE <<>>]
AsScriptAttachment(a) ==
    [ok |-> a.k = "obj",
     v |-> IF a.k = "obj" THEN [Id |-> a.id, Filename |-> a.filename]
                         ELSE [Id |-> 0, Filename |-> <<>>]]

\* Script.AsV1Script: V1Script.Attachments is *[]string
AsV1Script(p) ==
    LET obj == p.json = "object"
        atts == IF obj /\ IsSome(p.attachments)
                THEN Some([i \in 1..Len(Deref(p.attachments)) |->
                              AsLegacyScriptAttachment(Deref(p.attachments)[i]).v])
                ELSE None
    IN [ok |-> obj /\ (IsSome(p.attachments) => AllStr(Deref(p.attachments))),
        v |-> [Id |-> IF obj THEN p.id ELSE 0,
               Title |-> IF obj THEN p.title ELSE <<>>,
               Status |-> IF obj THEN p.status ELSE <<>>,
               AccessGroup |-> IF obj THEN p.access_group ELSE None,
               Username |-> IF obj THEN p.username ELSE None,
               TimeLimit |-> IF obj THEN p.time_limit ELSE None,
               Creator |-> IF obj THEN p.creator ELSE NoCreator,
               Attachments |-> atts]]

\* Script.AsV2Script: V2Script.Attachments is *[]ScriptAttachment
AsV2Script(p) ==
    LET obj == p.json = "object"
        atts == IF obj /\ IsSome(p.attachments)
                THEN Some([i \in 1..Len(Deref(p.attachments)) |->
                              AsScriptAttachment(Deref(p.attachments)[i]).v])
                ELSE None
    IN [ok |-> obj /\ (IsSome(p.attachments) => AllObj(Deref(p.attachments))),
        v |-> [Id |-> IF obj THEN p.id ELSE 0,
               Title |-> IF obj THEN p.title ELSE <<>>,
               Status |-> IF obj THEN p.status ELSE <<>>,
               AccessGroup |-> IF obj THEN p.access_group ELSE None,
               Username |-> IF obj THEN p.username ELSE None,
               TimeLimit |-> IF obj THEN p.time_limit ELSE None,
               CreatedBy |-> IF obj THEN p.created_by ELSE None,
               LastEditedBy |-> IF obj THEN p.last_edited_by ELSE None,
               CreatedAt |-> IF obj THEN p.created_at ELSE None,
               LastEditedAt |-> IF obj THEN p.last_edited_at ELSE None,
               VersionNumber |-> IF obj THEN p.version_number ELSE None,
               IsEditable |-> IF obj THEN p.is_editable ELSE None,
               IsExecutable |-> IF obj THEN p.is_executable ELSE None,
               IsRedactable |-> IF obj THEN p.is_redactable ELSE None,
               Interpreter |-> IF obj THEN p.interpreter ELSE None,
               Code |-> IF obj THEN p.code ELSE None,
               Attachments |-> atts,
               ScriptProfiles |-> IF obj THEN p.script_profiles ELSE None]]

\* Script.Discriminator: the "status" key of a JSON object
Discriminator(p) == [ok |-> p.json = "object", v |-> IF p.json = "object" THEN p.status ELSE <<>>]

\* LegacyActionResult.AsLegacyScriptCode: the JSON value must be a string
AsLegacyScriptCode(p) == [ok |-> p.json = "string", v |-> IF p.json = "string" THEN p.text ELSE <<>>]

----------------------------------------------------------------------------
(* Projection of decoded scripts into Terraform state records.  A          *)
(* projection returns [panic, diags, state]: panic when the Go code        *)
(* dereferences a nil pointer, diags the error diagnostics it collected.   *)

NoState == [none |-> TRUE]
HasError(diags) == Len(diags) > 0

\* a merge that builds the string as soon as either part is present
MergedCode_EitherPresent(v2Script) ==
    IF IsSome(v2Script.Interpreter) \/ IsSome(v2Script.Code)
    THEN TfVal(SprintfShebang(IF IsSome(v2Script.Interpreter) THEN Deref(v2Script.Interpreter) ELSE <<>>,
                              IF IsSome(v2Script.Code) THEN Deref(v2Script.Code) ELSE <<>>))
    ELSE ZeroTfValue

\* mergedCode: "#!" + interpreter + "\n" + code when both are present,
\* otherwise the zero value of types.String
MergedCode(v2Script) ==
    IF IsSome(v2Script.Interpreter) /\ IsSome(v2Script.Code)
    THEN TfVal(SprintfShebang(Deref(v2Script.Interpreter), Deref(v2Script.Code)))
    ELSE ZeroTfValue

\* created_by of a modern script; *v2Script.CreatedBy.Id is dereferenced unchecked
V2CreatedByPanics(v2Script) == IsSome(v2Script.CreatedBy) /\ ~IsSome(Deref(v2Script.CreatedBy).id)

V2CreatedBy(v2Script) ==
    IF IsSome(v2Script.CreatedBy) /\ IsSome(Deref(v2Script.CreatedBy).id)
    THEN TfVal([id |-> TfVal(Deref(Deref(v2Script.CreatedBy).id)),
                name |-> PointerValue(Deref(v2Script.CreatedBy).name)])
    ELSE TfNull

\* the unified record's created_by carries a null email for modern scripts
V2CreatedByWithEmail(v2Script) ==
    IF IsSome(v2Script.CreatedBy) /\ IsSome(Deref(v2Script.CreatedBy).id)
    THEN TfVal([id |-> TfVal(Deref(Deref(v2Script.CreatedBy).id)),
                name |-> PointerValue(Deref(v2Script.CreatedBy).name),
                email |-> TfNull])
    ELSE TfNull

V2LastEditedBy(v2Script) ==
    IF IsSome(v2Script.LastEditedBy)
    THEN TfVal([id |-> PointerValue(Deref(v2Script.LastEditedBy).id),
                name |-> PointerValue(Deref(v2Script.LastEditedBy).name)])
    ELSE TfNull

\* attachments of a modern script: a null list when the pointer is nil,
\* otherwise one {id, filename} object per element
V2Attachments(v2Script) ==
    IF IsSome(v2Script.Attachments)
    THEN TfVal([i \in 1..Len(Deref(v2Script.Attachments)) |->
                  [id |-> TfVal(Deref(v2Script.Attachments)[i].Id),
                   filename |-> TfVal(Deref(v2Script.Attachments)[i].Filename)]])
    ELSE TfNull

V2ScriptProfiles(v2Script) ==
    IF IsSome(v2Script.ScriptProfiles)
    THEN TfVal([i \in 1..Len(Deref(v2Script.ScriptProfiles)) |->
                  [id |-> TfVal(Deref(v2Script.ScriptProfiles)[i].id),
                   title |-> TfVal(Deref(v2Script.ScriptProfiles)[i].title)]])
    ELSE TfNull

v2ScriptToResourceState(v2Script) ==
    [panic |-> V2CreatedByPanics(v2Script),
     diags |-> <<>>,
     state |->
        [Id |-> TfVal(v2Script.Id),
         Title |-> TfVal(v2Script.Title),
         AccessGroup |-> PointerValue(v2Script.AccessGroup),
         Code |-> MergedCode(v2Script),
         CreatedAt |-> PointerValue(v2Script.CreatedAt),
         CreatedBy |-> V2CreatedBy(v2Script),
         LastEditedAt |-> PointerValue(v2Script.LastEditedAt),
         Status |-> TfVal(v2Script.Status),
         VersionNumber |-> PointerValue(v2Script.VersionNumber),
         Username |-> PointerValue(v2Script.Username),
         TimeLimit |-> PointerValue(v2Script.TimeLimit),
         IsEditable |-> PointerValue(v2Script.IsEditable),
         IsExecutable |-> PointerValue(v2Script.IsExecutable),
         IsRedactable |-> PointerValue(v2Script.IsRedactable),
         LastEditedBy |-> V2LastEditedBy(v2Script),
         Attachments |-> V2Attachments(v2Script),
         ScriptProfiles |-> V2ScriptProfiles(v2Script)]]

\* the data source projection is the same code under another model type
v2ScriptToDataSourceState(v2Script) == v2ScriptToResourceState(v2Script)

\* the unified resource's projection of a modern script
v2ScriptToState(v2Script) ==
    [panic |-> V2CreatedByPanics(v2Script),
     diags |-> <<>>,
     state |->
        [Id |-> TfVal(v2Script.Id),
         Title |-> TfVal(v2Script.Title),
         AccessGroup |-> PointerValue(v2Script.AccessGroup),
         Code |-> MergedCode(v2Script),
         CreatedAt |-> PointerValue(v2Script.CreatedAt),
         CreatedBy |-> V2CreatedByWithEmail(v2Script),
         LastEditedAt |-> PointerValue(v2Script.LastEditedAt),
         Status |-> TfVal(v2Script.Status),
         VersionNumber |-> PointerValue(v2Script.VersionNumber),
         Username |-> PointerValue(v2Script.Username),
         TimeLimit |-> PointerValue(v2Script.TimeLimit),
         IsEditable |-> PointerValue(v2Script.IsEditable),
         IsExecutable |-> PointerValue(v2Script.IsExecutable),
         IsRedactable |-> PointerValue(v2Script.IsRedactable),
         LastEditedBy |-> V2LastEditedBy(v2Script),
         Attachments |-> V2Attachments(v2Script),
         ScriptProfiles |-> V2ScriptProfiles(v2Script)]]

\* created_by of a legacy script: absent id, name, email become 0, "", ""
V1Creator(v1) ==
    TfVal([id |-> TfVal(IF IsSome(v1.Creator.id) THEN Deref(v1.Creator.id) ELSE 0),
           name |-> TfVal(IF IsSome(v1.Creator.name) THEN Deref(v1.Creator.name) ELSE <<>>),
           email |-> TfVal(IF IsSome(v1.Creator.email) THEN Deref(v1.Creator.email) ELSE <<>>)])

\* attachments of a legacy script in the legacy resource: {filename} objects
V1AttachmentsFilenameOnly(v1) ==
    IF IsSome(v1.Attachments)
    THEN TfVal([i \in 1..Len(Deref(v1.Attachments)) |->
                  [filename |-> TfVal(Deref(v1.Attachments)[i])]])
    ELSE TfNull

\* attachments of a legacy script in the unified resource: {id: null, filename}
V1AttachmentsNullId(v1) ==
    IF IsSome(v1.Attachments)
    THEN TfVal([i \in 1..Len(Deref(v1.Attachments)) |->
                  [id |-> TfNull, filename |-> TfVal(Deref(v1.Attachments)[i])]])
    ELSE TfNull

v1ScriptToResourceState(v1, rawCode) ==
    [panic |-> FALSE,
     diags |-> <<>>,
     state |->
        [Id |-> TfVal(v1.Id),
         Title |-> TfVal(v1.Title),
         AccessGroup |-> PointerValue(v1.AccessGroup),
         Code |-> TfVal(rawCode),
         CreatedBy |-> V1Creator(v1),
         Status |-> TfVal(v1.Status),
         Username |-> PointerValue(v1.Username),
         TimeLimit |-> PointerValue(v1.TimeLimit),
         Attachments |-> V1AttachmentsFilenameOnly(v1)]]

\* a projection of a legacy script into the unified record that fills the
\* modern-only scalars with Go zero values instead of null
v1ScriptWithCodeToState_ZeroFilled(v1, rawCode) ==
    [panic |-> FALSE,
     diags |-> <<>>,
     state |->
        [Id |-> TfVal(v1.Id),
         Title |-> TfVal(v1.Title),
         AccessGroup |-> PointerValue(v1.AccessGroup),
         Code |-> TfVal(rawCode),
         CreatedAt |-> TfVal(<<>>),
         CreatedBy |-> V1Creator(v1),
         LastEditedAt |-> TfVal(<<>>),
         Status |-> TfVal(v1.Status),
         VersionNumber |-> TfVal(0),
         Username |-> PointerValue(v1.Username),
         TimeLimit |-> PointerValue(v1.TimeLimit),
         IsEditable |-> TfVal(FALSE),
         IsExecutable |-> TfVal(FALSE),
         IsRedactable |-> TfVal(FALSE),
         LastEditedBy |-> TfNull,
         Attachments |-> V1AttachmentsNullId(v1),
         ScriptProfiles |-> TfNull]]

v1ScriptWithCodeToState(v1, rawCode) ==
    [panic |-> FALSE,
     diags |-> <<>>,
     state |->
        [Id |-> TfVal(v1.Id),
         Title |-> TfVal(v1.Title),
         AccessGroup |-> PointerValue(v1.AccessGroup),
         Code |-> TfVal(rawCode),
         CreatedAt |-> TfNull,
         CreatedBy |-> V1Creator(v1),
         LastEditedAt |-> TfNull,
         Status |-> TfVal(v1.Status),
         VersionNumber |-> TfNull,
         Username |-> PointerValue(v1.Username),
         TimeLimit |-> PointerValue(v1.TimeLimit),
         IsEditable |-> TfNull,
         IsExecutable |-> TfNull,
         IsRedactable |-> TfNull,
         LastEditedBy |-> TfNull,
         Attachments |-> V1AttachmentsNullId(v1),
         ScriptProfiles |-> TfNull]]

----------------------------------------------------------------------------
(* Remote calls and their responses.  A ...WithResponse call yields either *)
(* a transport error or an HTTP response whose typed bodies JSON200,       *)
(* JSON400 and JSON404 are set according to the status code.               *)

TransportError == [kind |-> "transport", status |-> 0, msg |-> None, body |-> JsonOther]
Http(status, msg, body) == [kind |-> "http", status |-> status, msg |-> msg, body |-> body]
Ok(body) == Http(200, None, body)

IsErr(r) == r.kind = "transport"
JSON200(r) == IF r.kind = "http" /\ r.status = 200 THEN Some(r.body) ELSE None
\* JSON400 / JSON404: Some(Message) where Message is itself a *string
JSON400(r) == IF r.kind = "http" /\ r.status = 400 THEN Some(r.msg) ELSE None
JSON404(r) == IF r.kind = "http" /\ r.status = 404 THEN Some(r.msg) ELSE None

CallGetScript(id) == [api |-> "GetScript", action |-> "", id |-> id, params |-> <<>>]
CallArchiveScript(id) == [api |-> "ArchiveScript", action |-> "", id |-> id, params |-> <<>>]
CallLegacyAction(action, vals) == [api |-> "InvokeLegacyAction", action |-> action, id |-> 0, params |-> vals]

\* outcomes of a handler: the remote calls issued, the error diagnostics,
\* whether State.Set was called and with what, whether the handler panicked
Fail(calls, summary) ==
    [calls |-> calls, diags |-> <<summary>>, wrote |-> FALSE, state |-> NoState, panic |-> FALSE]
Panicked(calls) ==
    [calls |-> calls, diags |-> <<>>, wrote |-> FALSE, state |-> NoState, panic |-> TRUE]
Quiet(calls) ==
    [calls |-> calls, diags |-> <<>>, wrote |-> FALSE, state |-> NoState, panic |-> FALSE]
\* resp.Diagnostics.Append(diags...); if HasError return; State.Set(state)
SetState(calls, proj) ==
    IF proj.panic THEN Panicked(calls)
    ELSE IF HasError(proj.diags)
    THEN [calls |-> calls, diags |-> proj.diags, wrote |-> FALSE, state |-> NoState, panic |-> FALSE]
    ELSE [calls |-> calls, diags |-> <<>>, wrote |-> TRUE, state |-> proj.state, panic |-> FALSE]

\* url.Values of a CreateScript request
CreateVals(title, codeB64, scriptType, timeLimit, username, accessGroup) ==
    LET keys == {"title", "code", "script_type"}
                \cup (IF IsKnown(timeLimit) THEN {"time_limit"} ELSE {})
                \cup (IF IsKnown(username) THEN {"username"} ELSE {})
                \cup (IF IsKnown(accessGroup) THEN {"access_group"} ELSE {})
    IN [k \in keys |->
          CASE k = "title" -> title
            [] k = "code" -> codeB64
            [] k = "script_type" -> scriptType
            [] k = "time_limit" -> Itoa(ValueInt64(timeLimit))
            [] k = "username" -> ValueString(username)
            [] k = "access_group" -> ValueString(accessGroup)]

\* an EditScript request that also carries the planned access_group
EditVals_WithAccessGroup(plan, state) ==
    LET keys == {"script_id"}
                \cup (IF ~IsUnknown(plan.Title) /\ ~IsNull(plan.Title) THEN {"title"} ELSE {})
                \cup (IF ~IsUnknown(plan.TimeLimit) /\ ~IsNull(plan.TimeLimit) THEN {"time_limit"} ELSE {})
                \cup (IF ~IsUnknown(plan.Username) /\ ~IsNull(plan.Username) THEN {"username"} ELSE {})
                \cup (IF ~IsUnknown(plan.AccessGroup) /\ ~IsNull(plan.AccessGroup) THEN {"access_group"} ELSE {})
                \cup (IF ~IsUnknown(plan.Code) /\ ~IsNull(plan.Code) /\ plan.Code # state.Code
                      THEN {"code"} ELSE {})
    IN [k \in keys |->
          CASE k = "script_id" -> Itoa(ValueInt64(state.Id))
            [] k = "title" -> ValueString(plan.Title)
            [] k = "time_limit" -> Itoa(ValueInt64(plan.TimeLimit))
            [] k = "username" -> ValueString(plan.Username)
            [] k = "access_group" -> ValueString(plan.AccessGroup)
            [] k = "code" -> EncodeToString(ValueString(plan.Code))]

\* url.Values of an EditScript request: script_id from prior state; title,
\* time_limit and username whenever the plan knows them; code when the plan
\* knows it and it differs from the prior state's code
EditVals(plan, state) ==
    LET keys == {"script_id"}
                \cup (IF ~IsUnknown(plan.Title) /\ ~IsNull(plan.Title) THEN {"title"} ELSE {})
                \cup (IF ~IsUnknown(plan.TimeLimit) /\ ~IsNull(plan.TimeLimit) THEN {"time_limit"} ELSE {})
                \cup (IF ~IsUnknown(plan.Username) /\ ~IsNull(plan.Username) THEN {"username"} ELSE {})
                \cup (IF ~IsUnknown(plan.Code) /\ ~IsNull(plan.Code) /\ plan.Code # state.Code
                      THEN {"code"} ELSE {})
    IN [k \in keys |->
          CASE k = "script_id" -> Itoa(ValueInt64(state.Id))
            [] k = "title" -> ValueString(plan.Title)
            [] k = "time_limit" -> Itoa(ValueInt64(plan.TimeLimit))
            [] k = "username" -> ValueString(plan.Username)
            [] k = "code" -> EncodeToString(ValueString(plan.Code))]

ScriptIdVals(id) == [k \in {"script_id"} |-> Itoa(id)]

\* a read of a legacy script that treats the code as an optional extra: no
\* GetScriptCode call, the code left empty
fetchV1Code_Skipped(id, codeRes) ==
    [calls |-> <<>>, ok |-> TRUE, panic |-> FALSE, diag |-> "", raw |-> <<>>]

\* fetchV1Code as the legacy resource and data source use it: one
\* GetScriptCode call, a non-200 response is an error diagnostic
fetchV1Code(id, codeRes) ==
    LET call == CallLegacyAction("GetScriptCode", ScriptIdVals(id))
    IN IF IsErr(codeRes) THEN [calls |-> <<call>>, ok |-> FALSE, panic |-> FALSE, diag |-> "code fetch failed", raw |-> <<>>]
       ELSE IF ~IsSome(JSON200(codeRes))
       THEN [calls |-> <<call>>, ok |-> FALSE, panic |-> FALSE, diag |-> "Getting script code failed", raw |-> <<>>]
       ELSE IF ~AsLegacyScriptCode(Deref(JSON200(codeRes))).ok
       THEN [calls |-> <<call>>, ok |-> FALSE, panic |-> FALSE, diag |-> "Decoding legacy script code failed", raw |-> <<>>]
       ELSE [calls |-> <<call>>, ok |-> TRUE, panic |-> FALSE, diag |-> "",
             raw |-> AsLegacyScriptCode(Deref(JSON200(codeRes))).v]

\* fetchV1Code as defined beside the unified resource: codeRes.JSON200 is
\* dereferenced without a nil check
fetchV1CodeUnchecked(id, codeRes) ==
    LET call == CallLegacyAction("GetScriptCode", ScriptIdVals(id))
    IN IF IsErr(codeRes) THEN [calls |-> <<call>>, ok |-> FALSE, panic |-> FALSE, diag |-> "code fetch failed", raw |-> <<>>]
       ELSE IF ~IsSome(JSON200(codeRes))
       THEN [calls |-> <<call>>, ok |-> FALSE, panic |-> TRUE, diag |-> "", raw |-> <<>>]
       ELSE IF ~AsLegacyScriptCode(Deref(JSON200(codeRes))).ok
       THEN [calls |-> <<call>>, ok |-> FALSE, panic |-> FALSE, diag |-> "decode failed", raw |-> <<>>]
       ELSE [calls |-> <<call>>, ok |-> TRUE, panic |-> FALSE, diag |-> "",
             raw |-> AsLegacyScriptCode(Deref(JSON200(codeRes))).v]

\* continue a handler after a code fetch: project with the fetched code
AfterFetch(calls, f, proj) ==
    IF f.panic THEN Panicked(calls \o f.calls)
    ELSE IF ~f.ok THEN Fail(calls \o f.calls, f.diag)
    ELSE SetState(calls \o f.calls, proj)

----------------------------------------------------------------------------
(* ScriptV1Resource (landscape_script_v1) *)

\* AddError(title, *body.Message): a nil Message is a nil dereference
DerefMessage(calls, summary, jsonBody) ==
    IF IsSome(jsonBody) /\ IsSome(Deref(jsonBody)) THEN Fail(calls, summary) ELSE Panicked(calls)

\* a Create of the legacy resource that sends the code as it is, not base64
ScriptV1Resource_Create_RawCode(plan, res, codeRes) ==
    LET vals == CreateVals(ValueString(plan.Title), ValueString(plan.Code), sV1,
                           plan.TimeLimit, plan.Username, plan.AccessGroup)
        c1 == CallLegacyAction("CreateScript", vals)
    IN IF IsErr(res) THEN Fail(<<c1>>, "Failed to create V1 script")
       ELSE IF IsSome(JSON404(res)) THEN DerefMessage(<<c1>>, "Failed to create V1 script", JSON404(res))
       ELSE IF ~IsSome(JSON200(res)) THEN DerefMessage(<<c1>>, "Failed to create V1 script", JSON400(res))
       ELSE LET v1d == AsV1Script(Deref(JSON200(res)))
                c2 == CallLegacyAction("GetScriptCode", ScriptIdVals(v1d.v.Id))
            IN IF ~v1d.ok THEN Fail(<<c1>>, "Failed to read script as V1 script")
               ELSE IF IsErr(codeRes) THEN Fail(<<c1, c2>>, "Failed to get script code")
               ELSE IF ~IsSome(JSON200(codeRes)) THEN Panicked(<<c1, c2>>)
               ELSE IF ~AsLegacyScriptCode(Deref(JSON200(codeRes))).ok
               THEN Fail(<<c1, c2>>, "Failed to get script code")
               ELSE SetState(<<c1, c2>>,
                             v1ScriptToResourceState(v1d.v, AsLegacyScriptCode(Deref(JSON200(codeRes))).v))

ScriptV1Resource_Create(plan, res, codeRes) ==
    LET vals == CreateVals(ValueString(plan.Title), EncodeToString(ValueString(plan.Code)), sV1,
                           plan.TimeLimit, plan.Username, plan.AccessGroup)
        c1 == CallLegacyAction("CreateScript", vals)
    IN IF IsErr(res) THEN Fail(<<c1>>, "Failed to create V1 script")
       ELSE IF IsSome(JSON404(res)) THEN DerefMessage(<<c1>>, "Failed to create V1 script", JSON404(res))
       ELSE IF ~IsSome(JSON200(res)) THEN DerefMessage(<<c1>>, "Failed to create V1 script", JSON400(res))
       ELSE LET v1d == AsV1Script(Deref(JSON200(res)))
                c2 == CallLegacyAction("GetScriptCode", ScriptIdVals(v1d.v.Id))
            IN IF ~v1d.ok THEN Fail(<<c1>>, "Failed to read script as V1 script")
               ELSE IF IsErr(codeRes) THEN Fail(<<c1, c2>>, "Failed to get script code")
               \* the nil check that follows tests the create response, which is
               \* a 200 here; codeRes.JSON200 is then dereferenced unchecked
               ELSE IF ~IsSome(JSON200(codeRes)) THEN Panicked(<<c1, c2>>)
               ELSE IF ~AsLegacyScriptCode(Deref(JSON200(codeRes))).ok
               THEN Fail(<<c1, c2>>, "Failed to get script code")
               ELSE SetState(<<c1, c2>>,
                             v1ScriptToResourceState(v1d.v, AsLegacyScriptCode(Deref(JSON200(codeRes))).v))

\* a Read of the legacy resource that stores the fetched code in base64
ScriptV1Resource_Read_Encoded(current, res, codeRes) ==
    LET c1 == CallGetScript(ValueInt64(current.Id))
    IN IF IsErr(res) THEN Fail(<<c1>>, "Failed to read script")
       ELSE IF IsSome(JSON404(res)) THEN DerefMessage(<<c1>>, "Failed to read script", JSON404(res))
       ELSE IF ~IsSome(JSON200(res)) THEN Fail(<<c1>>, "Failed to read script")
       ELSE LET v1d == AsV1Script(Deref(JSON200(res)))
                f == fetchV1Code(v1d.v.Id, codeRes)
            IN IF ~v1d.ok THEN Fail(<<c1>>, "Failed to read script")
               ELSE AfterFetch(<<c1>>, f, v1ScriptToResourceState(v1d.v, EncodeToString(f.raw)))

ScriptV1Resource_Read(current, res, codeRes) ==
    LET c1 == CallGetScript(ValueInt64(current.Id))
    IN IF IsErr(res) THEN Fail(<<c1>>, "Failed to read script")
       ELSE IF IsSome(JSON404(res)) THEN DerefMessage(<<c1>>, "Failed to read script", JSON404(res))
       ELSE IF ~IsSome(JSON200(res)) THEN Fail(<<c1>>, "Failed to read script")
       ELSE LET v1d == AsV1Script(Deref(JSON200(res)))
                f == fetchV1Code(v1d.v.Id, codeRes)
            IN IF ~v1d.ok THEN Fail(<<c1>>, "Failed to read script")
               ELSE AfterFetch(<<c1>>, f, v1ScriptToResourceState(v1d.v, f.raw))

ScriptV1Resource_Update(plan, state, res, codeRes) ==
    LET c1 == CallLegacyAction("EditScript", EditVals(plan, state))
    IN IF IsErr(res) THEN Fail(<<c1>>, "Update failed")
       ELSE IF IsSome(JSON404(res)) THEN DerefMessage(<<c1>>, "Update failed", JSON404(res))
       ELSE IF IsSome(JSON400(res)) THEN DerefMessage(<<c1>>, "Update failed", JSON400(res))
       ELSE IF ~IsSome(JSON200(res)) THEN Fail(<<c1>>, "Update failed")
       ELSE LET v1d == AsV1Script(Deref(JSON200(res)))
                f == fetchV1Code(v1d.v.Id, codeRes)
            IN IF ~v1d.ok THEN Fail(<<c1>>, "Failed to convert script")
               ELSE AfterFetch(<<c1>>, f, v1ScriptToResourceState(v1d.v, f.raw))

\* a Delete of the legacy resource that archives where it should remove
ScriptV1Resource_Delete_Archiving(state, err) ==
    LET c1 == CallArchiveScript(ValueInt64(state.Id))
    IN IF IsNull(state.Id) \/ IsUnknown(state.Id) THEN Quiet(<<>>)
       ELSE IF err THEN Fail(<<c1>>, "Failed to remove script")
       ELSE Quiet(<<c1>>)

\* Delete: nothing when the id is null or unknown; otherwise one RemoveScript
\* legacy action, of which only the transport error is looked at
ScriptV1Resource_Delete(state, err) ==
    LET c1 == CallLegacyAction("RemoveScript", ScriptIdVals(ValueInt64(state.Id)))
    IN IF IsNull(state.Id) \/ IsUnknown(state.Id) THEN Quiet(<<>>)
       ELSE IF err THEN Fail(<<c1>>, "Failed to remove script")
       ELSE Quiet(<<c1>>)

----------------------------------------------------------------------------
(* ScriptV2Resource (landscape_script_v2) *)

ScriptV2Resource_Create(plan, createRes) ==
    LET vals == CreateVals(ValueString(plan.Title), EncodeToString(ValueString(plan.Code)), sV2,
                           plan.TimeLimit, plan.Username, plan.AccessGroup)
        c1 == CallLegacyAction("CreateScript", vals)
    IN IF IsNull(plan.Title) \/ IsUnknown(plan.Title) THEN Fail(<<>>, "Missing title")
       ELSE IF IsNull(plan.Code) \/ IsUnknown(plan.Code) THEN Fail(<<>>, "Missing code")
       ELSE IF IsErr(createRes) THEN Fail(<<c1>>, "Failed to create script")
       ELSE IF ~IsSome(JSON200(createRes)) THEN Fail(<<c1>>, "Failed to create script")
       ELSE LET v2d == AsV2Script(Deref(JSON200(createRes)))
            IN IF ~v2d.ok THEN Fail(<<c1>>, "Failed to convert script response into V2 script")
               ELSE SetState(<<c1>>, v2ScriptToResourceState(v2d.v))

ScriptV2Resource_Read(current, scriptRes) ==
    LET c1 == CallGetScript(ValueInt64(current.Id))
    IN IF IsNull(current.Id) \/ IsUnknown(current.Id) THEN Fail(<<>>, "Missing script ID")
       ELSE IF IsErr(scriptRes) THEN Fail(<<c1>>, "Failed to read script")
       ELSE IF ~IsSome(JSON200(scriptRes)) THEN Fail(<<c1>>, "Failed to read script")
       ELSE LET v2d == AsV2Script(Deref(JSON200(scriptRes)))
            IN IF ~v2d.ok THEN Fail(<<c1>>, "Failed to convert script")
               ELSE SetState(<<c1>>, v2ScriptToResourceState(v2d.v))

\* Update: the new state is projected from the body of the edit response
ScriptV2Resource_Update(plan, state, res) ==
    LET c1 == CallLegacyAction("EditScript", EditVals(plan, state))
    IN IF IsErr(res) THEN Fail(<<c1>>, "Update failed")
       ELSE IF ~IsSome(JSON200(res)) THEN Fail(<<c1>>, "Update failed")
       ELSE LET v2d == AsV2Script(Deref(JSON200(res)))
            IN IF ~v2d.ok THEN Fail(<<c1>>, "Failed to convert script")
               ELSE SetState(<<c1>>, v2ScriptToResourceState(v2d.v))

\* Delete archives: one ArchiveScript call for state.Id.ValueInt64()
ScriptV2Resource_Delete(state, err) ==
    LET c1 == CallArchiveScript(ValueInt64(state.Id))
    IN IF err THEN Fail(<<c1>>, "Failed to archive script") ELSE Quiet(<<c1>>)

----------------------------------------------------------------------------
(* ScriptResource (landscape_script, the unified resource) *)

\* v1ScriptToState: fetch the code, then project
v1ScriptToState(calls, v1, codeRes) ==
    LET f == fetchV1CodeUnchecked(v1.Id, codeRes)
    IN AfterFetch(calls, f, v1ScriptWithCodeToState(v1, f.raw))

\* a readScript that tries the modern arm first, whatever the discriminator
readScript_ModernFirst(calls0, id, scriptRes, codeRes) ==
    LET calls == calls0 \o <<CallGetScript(id)>>
    IN IF IsErr(scriptRes) THEN Fail(calls, "Failed to read script")
       ELSE IF ~IsSome(JSON200(scriptRes)) THEN Fail(calls, "Failed to read script")
       ELSE LET p == Deref(JSON200(scriptRes))
            IN IF ~Discriminator(p).ok THEN Fail(calls, "Failed to read script")
               ELSE IF AsV2Script(p).ok THEN SetState(calls, v2ScriptToState(AsV2Script(p).v))
               ELSE IF Discriminator(p).v = sV1 /\ AsV1Script(p).ok
               THEN v1ScriptToState(calls, AsV1Script(p).v, codeRes)
               ELSE Fail(calls, "Failed to convert script")

\* readScript: GetScript, then the discriminator picks the arm tried first;
\* a payload marked V1 that does not decode as V1 falls through to V2
readScript(calls0, id, scriptRes, codeRes) ==
    LET calls == calls0 \o <<CallGetScript(id)>>
    IN IF IsErr(scriptRes) THEN Fail(calls, "Failed to read script")
       ELSE IF ~IsSome(JSON200(scriptRes)) THEN Fail(calls, "Failed to read script")
       ELSE LET p == Deref(JSON200(scriptRes))
            IN IF ~Discriminator(p).ok THEN Fail(calls, "Failed to read script")
               ELSE IF Discriminator(p).v = sV1 /\ AsV1Script(p).ok
               THEN v1ScriptToState(calls, AsV1Script(p).v, codeRes)
               ELSE IF AsV2Script(p).ok THEN SetState(calls, v2ScriptToState(AsV2Script(p).v))
               ELSE Fail(calls, "Failed to convert script")

\* ValueStringPointer / ValueInt64Pointer: nil for null, else the address of
\* the held value (the zero value when unknown)
ValueStringPointer(v) == IF IsNull(v) THEN None ELSE Some(ValueString(v))
ValueInt64Pointer(v) == IF IsNull(v) THEN None ELSE Some(ValueInt64(v))

validStatuses == {sV1, sACTIVE, sARCHIVED, sREDACTED}

\* create options that ask for a modern script whatever the status
newScriptCreateOpts_AlwaysModern(title, codeAttr, username, timeLimit, status, accessGroup) ==
    [Title |-> ValueString(title),
     CodeB64 |-> EncodeToString(ValueString(codeAttr)),
     Username |-> ValueStringPointer(username),
     TimeLimit |-> ValueInt64Pointer(timeLimit),
     ScriptType |-> sV2,
     AccessGroup |-> ValueStringPointer(accessGroup)]

newScriptCreateOpts(title, codeAttr, username, timeLimit, status, accessGroup) ==
    [Title |-> ValueString(title),
     CodeB64 |-> EncodeToString(ValueString(codeAttr)),
     Username |-> ValueStringPointer(username),
     TimeLimit |-> ValueInt64Pointer(timeLimit),
     ScriptType |-> IF ~IsNull(status) /\ ~IsUnknown(status) /\ ToUpper(ValueString(status)) # sV1
                    THEN sV2 ELSE sV1,
     AccessGroup |-> ValueStringPointer(accessGroup)]

\* url.Values that createV1 and createV2 build from the options
CreateOptsVals(opts) ==
    LET keys == {"title", "code", "script_type"}
                \cup (IF IsSome(opts.TimeLimit) THEN {"time_limit"} ELSE {})
                \cup (IF IsSome(opts.Username) THEN {"username"} ELSE {})
                \cup (IF IsSome(opts.AccessGroup) THEN {"access_group"} ELSE {})
    IN [k \in keys |->
          CASE k = "title" -> opts.Title
            [] k = "code" -> opts.CodeB64
            [] k = "script_type" -> opts.ScriptType
            [] k = "time_limit" -> Itoa(Deref(opts.TimeLimit))
            [] k = "username" -> Deref(opts.Username)
            [] k = "access_group" -> Deref(opts.AccessGroup)]

\* createV2: a non-200 answer is reported with the 400 message if there is
\* one, else with the raw body
createV2(opts, createRes) ==
    LET c1 == CallLegacyAction("CreateScript", CreateOptsVals(opts))
    IN IF IsErr(createRes) THEN Fail(<<c1>>, "Failed to create script")
       ELSE IF ~IsSome(JSON200(createRes)) THEN Fail(<<c1>>, "Failed to create script")
       ELSE LET v2d == AsV2Script(Deref(JSON200(createRes)))
            IN IF ~v2d.ok THEN Fail(<<c1>>, "Failed to decode V2 script")
               ELSE SetState(<<c1>>, v2ScriptToState(v2d.v))

\* a createV1 that takes the code for granted: no GetScriptCode call, the
\* record holds an empty code
createV1_WithoutFetch(opts, cre, codeRes) ==
    LET c1 == CallLegacyAction("CreateScript", CreateOptsVals(opts))
    IN IF IsErr(cre) THEN Fail(<<c1>>, "create failed")
       ELSE IF ~IsSome(JSON200(cre)) THEN DerefMessage(<<c1>>, "create failed", JSON400(cre))
       ELSE LET v1d == AsV1Script(Deref(JSON200(cre)))
            IN IF ~v1d.ok THEN Fail(<<c1>>, "invalid V1")
               ELSE SetState(<<c1>>, v1ScriptWithCodeToState(v1d.v, <<>>))

\* createV1: a non-200 answer dereferences cre.JSON400.Message; the code
\* fetch that follows dereferences codeRes.JSON200 without a nil check
createV1(opts, cre, codeRes) ==
    LET c1 == CallLegacyAction("CreateScript", CreateOptsVals(opts))
    IN IF IsErr(cre) THEN Fail(<<c1>>, "create failed")
       ELSE IF ~IsSome(JSON200(cre)) THEN DerefMessage(<<c1>>, "create failed", JSON400(cre))
       ELSE LET v1d == AsV1Script(Deref(JSON200(cre)))
                f == fetchV1CodeUnchecked(v1d.v.Id, codeRes)
            IN IF ~v1d.ok THEN Fail(<<c1>>, "invalid V1")
               ELSE AfterFetch(<<c1>>, f, v1ScriptWithCodeToState(v1d.v, f.raw))

\* a Create of the unified resource that does not look the status up in
\* validStatuses: any word other than V1 is sent as a V2 script
ScriptResource_Create_AnyStatus(plan, res, codeRes) ==
    LET statusValue == IF ~IsNull(plan.Status) /\ ~IsUnknown(plan.Status)
                       THEN ToUpper(ValueString(plan.Status)) ELSE sV1
        opts == newScriptCreateOpts(plan.Title, plan.Code, plan.Username, plan.TimeLimit,
                                    TfVal(statusValue), plan.AccessGroup)
    IN IF IsNull(plan.Title) \/ IsUnknown(plan.Title) THEN Fail(<<>>, "Missing title")
       ELSE IF IsNull(plan.Code) \/ IsUnknown(plan.Code) THEN Fail(<<>>, "Missing code")
       ELSE IF opts.ScriptType = sV2 THEN createV2(opts, res)
       ELSE createV1(opts, res, codeRes)

ScriptResource_Create(plan, res, codeRes) ==
    LET statusValue == IF ~IsNull(plan.Status) /\ ~IsUnknown(plan.Status)
                       THEN ToUpper(ValueString(plan.Status)) ELSE sV1
        opts == newScriptCreateOpts(plan.Title, plan.Code, plan.Username, plan.TimeLimit,
                                    TfVal(statusValue), plan.AccessGroup)
    IN IF IsNull(plan.Title) \/ IsUnknown(plan.Title) THEN Fail(<<>>, "Missing title")
       ELSE IF IsNull(plan.Code) \/ IsUnknown(plan.Code) THEN Fail(<<>>, "Missing code")
       ELSE IF statusValue \notin validStatuses THEN Fail(<<>>, "Invalid script status")
       ELSE IF opts.ScriptType = sV2 THEN createV2(opts, res)
       ELSE IF opts.ScriptType = sV1 THEN createV1(opts, res, codeRes)
       ELSE Fail(<<>>, "Invalid script status")

ScriptResource_Read(current, scriptRes, codeRes) ==
    IF IsNull(current.Id) \/ IsUnknown(current.Id) THEN Fail(<<>>, "Missing script ID")
    ELSE readScript(<<>>, ValueInt64(current.Id), scriptRes, codeRes)

\* updateScript: EditScript through InvokeLegacyAction (only the transport
\* error is looked at), then readScript of the same id
updateScript(plan, state, err, scriptRes, codeRes) ==
    LET c1 == CallLegacyAction("EditScript", EditVals(plan, state))
    IN IF err THEN Fail(<<c1>>, "update failed")
       ELSE readScript(<<c1>>, ValueInt64(state.Id), scriptRes, codeRes)

ScriptResource_Update(plan, state, err, scriptRes, codeRes) ==
    updateScript(plan, state, err, scriptRes, codeRes)

\* Delete: nothing when the id is null or unknown, nothing when the status
\* is not exactly "V1", otherwise one RemoveScript legacy action
ScriptResource_Delete(state, err) ==
    LET c1 == CallLegacyAction("RemoveScript", ScriptIdVals(ValueInt64(state.Id)))
    IN IF IsNull(state.Id) \/ IsUnknown(state.Id) THEN Quiet(<<>>)
       ELSE IF state.Status # TfVal(sV1) THEN Quiet(<<>>)
       ELSE IF err THEN Fail(<<c1>>, "Failed to remove script")
       ELSE Quiet(<<c1>>)

----------------------------------------------------------------------------
(* The earlier unified resource, whose records carry script_type, and the  *)
(* unified data source built on its projections.                           *)

\* every element is built with id = types.NumberNull() against an Int64
\* attribute type, which types.ObjectValue rejects with an error diagnostic
v1ScriptToStateWithType(v1, rawCode, stateScriptType) ==
    LET n == IF IsSome(v1.Attachments) THEN Len(Deref(v1.Attachments)) ELSE 0
    IN [panic |-> FALSE,
        diags |-> IF n > 0 THEN <<"Invalid Object Attribute Type">> ELSE <<>>,
        state |->
           [Id |-> TfVal(v1.Id),
            Title |-> TfVal(v1.Title),
            AccessGroup |-> PointerValue(v1.AccessGroup),
            ScriptType |-> TfVal(stateScriptType),
            Code |-> TfVal(rawCode),
            CreatedAt |-> TfNull,
            CreatedBy |-> V1Creator(v1),
            LastEditedAt |-> TfNull,
            Status |-> TfVal(v1.Status),
            VersionNumber |-> TfNull,
            Username |-> PointerValue(v1.Username),
            TimeLimit |-> PointerValue(v1.TimeLimit),
            IsEditable |-> TfNull,
            IsExecutable |-> TfNull,
            IsRedactable |-> TfNull,
            LastEditedBy |-> TfNull,
            Attachments |-> IF IsSome(v1.Attachments) /\ n = 0 THEN TfVal(<<>>) ELSE TfNull,
            ScriptProfiles |-> TfNull]]

\* script profiles are built with id = types.NumberValue against an Int64
\* attribute type: an error diagnostic per profile
v2ScriptToStateWithType(v2Script, stateScriptType) ==
    LET n == IF IsSome(v2Script.ScriptProfiles) THEN Len(Deref(v2Script.ScriptProfiles)) ELSE 0
    IN [panic |-> V2CreatedByPanics(v2Script),
        diags |-> IF n > 0 THEN <<"Invalid Object Attribute Type">> ELSE <<>>,
        state |->
           [Id |-> TfVal(v2Script.Id),
            Title |-> TfVal(v2Script.Title),
            AccessGroup |-> PointerValue(v2Script.AccessGroup),
            ScriptType |-> TfVal(stateScriptType),
            Code |-> MergedCode(v2Script),
            CreatedAt |-> PointerValue(v2Script.CreatedAt),
            CreatedBy |-> V2CreatedByWithEmail(v2Script),
            LastEditedAt |-> PointerValue(v2Script.LastEditedAt),
            Status |-> TfVal(v2Script.Status),
            VersionNumber |-> PointerValue(v2Script.VersionNumber),
            Username |-> PointerValue(v2Script.Username),
            TimeLimit |-> PointerValue(v2Script.TimeLimit),
            IsEditable |-> PointerValue(v2Script.IsEditable),
            IsExecutable |-> PointerValue(v2Script.IsExecutable),
            IsRedactable |-> PointerValue(v2Script.IsRedactable),
            LastEditedBy |-> V2LastEditedBy(v2Script),
            Attachments |-> V2Attachments(v2Script),
            ScriptProfiles |-> IF IsSome(v2Script.ScriptProfiles) /\ n = 0 THEN TfVal(<<>>) ELSE TfNull]]

v1ToState(calls, v1, codeRes, stateScriptType) ==
    LET f == fetchV1CodeUnchecked(v1.Id, codeRes)
    IN AfterFetch(calls, f, v1ScriptToStateWithType(v1, f.raw, stateScriptType))

\* a handler outcome tagged with the variant arm that decoded the payload
WithArm(r, arm) ==
    [calls |-> r.calls, diags |-> r.diags, wrote |-> r.wrote, state |-> r.state,
     panic |-> r.panic, arm |-> arm]

\* readScript of the earlier unified resource: the script_type of prior
\* state orders the two decode attempts and is passed on to the projection
readScriptWithHint(id, stateScriptType, scriptRes, codeRes) ==
    LET calls == <<CallGetScript(id)>>
    IN IF IsErr(scriptRes) THEN WithArm(Fail(calls, "Failed to read script"), "none")
       ELSE IF ~IsSome(JSON200(scriptRes)) THEN WithArm(Fail(calls, "Failed to read script"), "none")
       ELSE LET p == Deref(JSON200(scriptRes))
                asV1 == WithArm(v1ToState(calls, AsV1Script(p).v, codeRes, stateScriptType), "V1")
                asV2 == WithArm(SetState(calls, v2ScriptToStateWithType(AsV2Script(p).v, stateScriptType)), "V2")
            IN IF EqualFold(stateScriptType, sV1)
               THEN IF AsV1Script(p).ok THEN asV1
                    ELSE IF AsV2Script(p).ok THEN asV2
                    ELSE WithArm(Fail(calls, "Failed to convert script"), "none")
               ELSE IF AsV2Script(p).ok THEN asV2
                    ELSE IF AsV1Script(p).ok THEN asV1
                    ELSE WithArm(Fail(calls, "Failed to convert script"), "none")

ScriptResourceWithType_Read(current, scriptRes, codeRes) ==
    IF IsNull(current.Id) \/ IsUnknown(current.Id)
    THEN WithArm(Fail(<<>>, "Missing script ID"), "none")
    ELSE readScriptWithHint(ValueInt64(current.Id), ValueString(current.ScriptType), scriptRes, codeRes)

\* ScriptDataSource.Read: always tries the modern decode first
ScriptDataSource_Read(idValue, scriptRes, codeRes) ==
    LET calls == <<CallGetScript(ValueInt64(idValue))>>
    IN IF IsUnknown(idValue) \/ IsNull(idValue) THEN Fail(<<>>, "Missing script ID")
       ELSE IF IsErr(scriptRes) THEN Fail(calls, "Failed to read script")
       ELSE IF ~IsSome(JSON200(scriptRes)) THEN Fail(calls, "Failed to get script")
       ELSE LET p == Deref(JSON200(scriptRes))
            IN IF AsV2Script(p).ok THEN SetState(calls, v2ScriptToStateWithType(AsV2Script(p).v, sV2))
               ELSE IF ~AsV1Script(p).ok THEN Fail(calls, "Failed to convert script")
               ELSE v1ToState(calls, AsV1Script(p).v, codeRes, sV1)

----------------------------------------------------------------------------
(* The first legacy data source (landscape_v1_script) and the first        *)
(* unified data source, which store the client's structs as state.         *)

\* v1ScriptDataSource.Read: a failed AsV1Script adds an error and the
\* handler goes on to State.Set with whatever the decode left in v1Script
v1ScriptDataSource_Read(idValue, scriptRes) ==
    LET calls == <<CallGetScript(ValueInt64(idValue))>>
    IN IF IsUnknown(idValue) \/ IsNull(idValue) THEN Fail(<<>>, "Missing script identifier")
       ELSE IF IsErr(scriptRes) THEN Fail(calls, "Failed to read script")
       ELSE IF ~IsSome(JSON200(scriptRes)) THEN Fail(calls, "Failed to get script")
       ELSE LET v1d == AsV1Script(Deref(JSON200(scriptRes)))
            IN [calls |-> calls,
                diags |-> IF v1d.ok THEN <<>> ELSE <<"Failed to convert into (legacy) V1 script">>,
                wrote |-> TRUE,
                state |-> v1d.v,
                panic |-> FALSE]

\* v1ScriptDataSource.Read once it fetches the code: no error it adds after
\* the JSON200 check stops it.  A failed decode leaves v1Script as it is, a
\* transport error of the code fetch leaves res nil, and res.JSON200 is
\* dereferenced unchecked; State.Set runs with whatever was collected
v1ScriptDataSourceWithCode_Read(idValue, scriptRes, codeRes) ==
    LET c1 == CallGetScript(ValueInt64(idValue))
    IN IF IsUnknown(idValue) \/ IsNull(idValue) THEN Fail(<<>>, "Missing script identifier")
       ELSE IF IsErr(scriptRes) THEN Fail(<<c1>>, "Failed to read script")
       ELSE IF ~IsSome(JSON200(scriptRes)) THEN Fail(<<c1>>, "Failed to get script")
       ELSE LET v1d == AsV1Script(Deref(JSON200(scriptRes)))
                c2 == CallLegacyAction("GetScriptCode", ScriptIdVals(v1d.v.Id))
                d1 == IF v1d.ok THEN <<>> ELSE <<"Failed to convert into (legacy) V1 script">>
            IN IF IsErr(codeRes) \/ ~IsSome(JSON200(codeRes)) THEN Panicked(<<c1, c2>>)
               ELSE LET code == AsLegacyScriptCode(Deref(JSON200(codeRes)))
                        d2 == IF code.ok THEN <<>>
                              ELSE <<"Failed to convert legacy script content into string">>
                    IN [calls |-> <<c1, c2>>,
                        diags |-> d1 \o d2,
                        wrote |-> TRUE,
                        state |-> [V1Script |-> v1d.v, Code |-> code.v],
                        panic |-> FALSE]

\* the attachments attribute scriptDataSource.Read sets after State.Set:
\* a list of strings when every element is a string, else a list of
\* {id, filename} objects when every element is an object, else nothing
DynamicAttachments(originalAttachments) ==
    IF ~IsSome(originalAttachments) \/ Len(Deref(originalAttachments)) = 0 THEN TfNull
    ELSE IF AllStr(Deref(originalAttachments))
    THEN TfVal([i \in 1..Len(Deref(originalAttachments)) |->
                  TfVal(AsLegacyScriptAttachment(Deref(originalAttachments)[i]).v)])
    ELSE IF AllObj(Deref(originalAttachments))
    THEN TfVal([i \in 1..Len(Deref(originalAttachments)) |->
                  [id |-> TfVal(AsScriptAttachment(Deref(originalAttachments)[i]).v.Id),
                   filename |-> TfVal(AsScriptAttachment(Deref(originalAttachments)[i]).v.Filename)]])
    ELSE TfNull

scriptDataSource_Read(idValue, scriptRes) ==
    LET calls == <<CallGetScript(ValueInt64(idValue))>>
    IN IF IsUnknown(idValue) \/ IsNull(idValue) THEN Fail(<<>>, "Missing script identifier")
       ELSE IF IsErr(scriptRes) THEN Fail(calls, "Failed to read script")
       ELSE IF ~IsSome(JSON200(scriptRes)) THEN Fail(calls, "Failed to get script")
       ELSE LET p == Deref(JSON200(scriptRes))
            IN [calls |-> calls, diags |-> <<>>, wrote |-> TRUE,
                state |-> [Id |-> p.id, Title |-> p.title, Status |-> p.status,
                           Attachments |-> DynamicAttachments(p.attachments)],
                panic |-> FALSE]

----------------------------------------------------------------------------
(* shared.go: trial conversions of an attachment collection *)

ScriptAttachmentItemsAsListOfStringValues(sai) ==
    IF Len(sai) = 0 THEN [list |-> ZeroTfValue, ok |-> FALSE]
    ELSE IF \E i \in 1..Len(sai) : ~AsLegacyScriptAttachment(sai[i]).ok
    THEN [list |-> ZeroTfValue, ok |-> FALSE]
    ELSE [list |-> TfVal([i \in 1..Len(sai) |-> TfVal(AsLegacyScriptAttachment(sai[i]).v)]),
          ok |-> TRUE]

ScriptAttachmentItemsAsListOfObjectValues(sai) ==
    IF Len(sai) = 0 THEN [list |-> ZeroTfValue, ok |-> FALSE]
    ELSE IF \E i \in 1..Len(sai) : ~AsScriptAttachment(sai[i]).ok
    THEN [list |-> ZeroTfValue, ok |-> FALSE]
    ELSE [list |-> TfVal([i \in 1..Len(sai) |->
                            [id |-> TfVal(AsScriptAttachment(sai[i]).v.Id),
                             filename |-> TfVal(AsScriptAttachment(sai[i]).v.Filename)]]),
          ok |-> TRUE]

----------------------------------------------------------------------------
(* Attachment resources: Update is refused outright *)

ScriptV2AttachmentResource_Update(plan, state) ==
    Fail(<<>>, "Update not supported for script attachments")

\* an Update of an attachment that accepts the plan as the new state
ScriptAttachmentResource_Update_Accepting(plan, state) ==
    [calls |-> <<>>, diags |-> <<>>, wrote |-> TRUE, state |-> plan, panic |-> FALSE]

ScriptAttachmentResource_Update(plan, state) ==
    Fail(<<>>, "Update not supported for script attachments")

ScriptAttachmentResourceByFilename_Update(plan, state) ==
    Fail(<<>>, "Attachment Update not supported")

----------------------------------------------------------------------------
(* Attachment resources: Create and Read *)

\* a response body that is plain text, as GetScriptAttachment returns
RawBody(t) == [EmptyObject EXCEPT !.json = "raw", !.text = t]

\* string(resp.Body): a JSON string arrives with its quotes
BodyString(r) ==
    IF r.body.json = "raw" THEN r.body.text
    ELSE IF r.body.json = "string" THEN <<34>> \o r.body.text \o <<34>>
    ELSE <<>>

\* JSON200 of GetScriptAttachment is a *string: set for a 200 JSON string
ContentJSON200(r) ==
    IF r.kind = "http" /\ r.status = 200 /\ r.body.json = "string" THEN Some(r.body.text) ELSE None

CallGetScriptAttachment(scriptId, attachmentId) ==
    [api |-> "GetScriptAttachment", action |-> "", id |-> scriptId,
     params |-> [k \in {"attachment_id"} |-> Itoa(attachmentId)]]

\* url.Values of CreateScriptAttachment: file is filename$$base64(content)
AttachmentVals(plan) ==
    [k \in {"script_id", "file"} |->
        IF k = "script_id" THEN Itoa(ValueInt64(plan.ScriptId))
        ELSE ValueString(plan.Filename) \o <<36, 36>> \o EncodeToString(ValueString(plan.Content))]

\* the loop over *v2Script.Attachments: index of the first entry with the
\* filename, 0 when there is none
FirstWithFilename(atts, filename) ==
    IF IsSome(atts) /\ \E i \in 1..Len(Deref(atts)) : Deref(atts)[i].Filename = filename
    THEN CHOOSE i \in 1..Len(Deref(atts)) :
            /\ Deref(atts)[i].Filename = filename
            /\ \A j \in 1..(i - 1) : Deref(atts)[j].Filename # filename
    ELSE 0

\* ScriptV2AttachmentResource.readAttachment: a 200 answer with an empty
\* body falls through to the error at the end
V2Attachment_readAttachment(calls0, scriptID, attachmentID, filename, contentRes) ==
    LET calls == calls0 \o <<CallGetScriptAttachment(scriptID, attachmentID)>>
    IN IF IsErr(contentRes) THEN Fail(calls, "Failed to read script attachment content")
       ELSE IF IsSome(JSON404(contentRes)) THEN DerefMessage(calls, "Attachment not found", JSON404(contentRes))
       ELSE IF contentRes.status = 200 /\ BodyString(contentRes) # <<>>
       THEN [calls |-> calls, diags |-> <<>>, wrote |-> TRUE, panic |-> FALSE,
             state |-> [Id |-> TfVal(attachmentID), ScriptId |-> TfVal(scriptID),
                        Filename |-> TfVal(filename), Content |-> TfVal(BodyString(contentRes))]]
       ELSE Fail(calls, "Error reading attachment")

ScriptV2AttachmentResource_Create(plan, createRes, scriptRes, contentRes) ==
    LET c1 == CallLegacyAction("CreateScriptAttachment", AttachmentVals(plan))
        c2 == CallGetScript(ValueInt64(plan.ScriptId))
    IN IF IsErr(createRes) THEN Fail(<<c1>>, "Failed to create attachment")
       ELSE IF ~IsSome(JSON200(createRes)) THEN Fail(<<c1>>, "Failed to create attachment")
       ELSE IF IsErr(scriptRes) THEN Fail(<<c1, c2>>, "Failed to read script after creating attachment")
       ELSE IF ~IsSome(JSON200(scriptRes)) THEN Fail(<<c1, c2>>, "Failed to read script")
       ELSE LET v2d == AsV2Script(Deref(JSON200(scriptRes)))
                at == FirstWithFilename(v2d.v.Attachments, ValueString(plan.Filename))
            IN IF ~v2d.ok THEN Fail(<<c1, c2>>, "Script is not a V2 script")
               ELSE IF at = 0 THEN Fail(<<c1, c2>>, "Attachment not found after creation")
               ELSE V2Attachment_readAttachment(<<c1, c2>>, ValueInt64(plan.ScriptId),
                                                Deref(v2d.v.Attachments)[at].Id,
                                                ValueString(plan.Filename), contentRes)

ScriptV2AttachmentResource_Read(state, contentRes) ==
    V2Attachment_readAttachment(<<>>, ValueInt64(state.ScriptId), ValueInt64(state.Id),
                                ValueString(state.Filename), contentRes)

\* ScriptAttachmentResource.readAttachment, keyed by attachment id: the
\* script is fetched and not looked at, the content is the JSON string
Attachment_readAttachment(calls0, scriptID, attachmentID, filename, scriptRes, contentRes) ==
    LET c1 == CallGetScript(scriptID)
        c2 == CallGetScriptAttachment(scriptID, attachmentID)
    IN IF IsErr(scriptRes) THEN Fail(calls0 \o <<c1>>, "Failed to read script")
       ELSE IF ~IsSome(JSON200(scriptRes)) THEN Fail(calls0 \o <<c1>>, "Failed to read script")
       ELSE IF IsErr(contentRes) THEN Fail(calls0 \o <<c1, c2>>, "Failed to read script attachment content")
       ELSE IF ~IsSome(ContentJSON200(contentRes))
       THEN IF IsSome(JSON404(contentRes)) THEN Fail(calls0 \o <<c1, c2>>, "Attachment not found")
            ELSE Fail(calls0 \o <<c1, c2>>, "Error reading attachments")
       ELSE [calls |-> calls0 \o <<c1, c2>>, diags |-> <<>>, wrote |-> TRUE, panic |-> FALSE,
             state |-> [Id |-> TfVal(attachmentID), ScriptId |-> TfVal(scriptID),
                        Filename |-> TfVal(filename), Content |-> TfVal(Deref(ContentJSON200(contentRes)))]]

\* the checks all three Creates but the V2 one start with
AttachmentPlanMissing(plan) ==
    IF IsNull(plan.ScriptId) \/ IsUnknown(plan.ScriptId) THEN "Missing script_id"
    ELSE IF IsNull(plan.Filename) \/ IsUnknown(plan.Filename) THEN "Missing filename"
    ELSE IF IsNull(plan.Content) \/ IsUnknown(plan.Content) THEN "Missing content"
    ELSE ""

\* ScriptAttachmentResource.Create, keyed by attachment id: the id handed to
\* readAttachment is plan.Id, which Terraform has not computed yet
ScriptAttachmentResource_Create(plan, createRes, scriptRes, contentRes) ==
    LET c1 == CallLegacyAction("CreateScriptAttachment", AttachmentVals(plan))
    IN IF AttachmentPlanMissing(plan) # "" THEN Fail(<<>>, AttachmentPlanMissing(plan))
       ELSE IF IsErr(createRes) THEN Fail(<<c1>>, "Failed to create attachment")
       ELSE IF ~IsSome(JSON200(createRes)) THEN Fail(<<c1>>, "Failed to create attachment")
       ELSE Attachment_readAttachment(<<c1>>, ValueInt64(plan.ScriptId), ValueInt64(plan.Id),
                                      ValueString(plan.Filename), scriptRes, contentRes)

\* ScriptAttachmentResource.readAttachment, keyed by filename: the id comes
\* from the script's attachment list, the content is the caller's
AttachmentByFilename_readAttachment(calls0, scriptID, filename, content, scriptRes) ==
    LET calls == calls0 \o <<CallGetScript(scriptID)>>
    IN IF IsErr(scriptRes) THEN Fail(calls, "Failed to read script")
       ELSE IF ~IsSome(JSON200(scriptRes)) THEN Fail(calls, "Failed to read script")
       ELSE LET v2d == AsV2Script(Deref(JSON200(scriptRes)))
                at == FirstWithFilename(v2d.v.Attachments, filename)
            IN IF ~v2d.ok THEN Fail(calls, "Unsupported script type")
               ELSE IF at = 0 THEN Fail(calls, "Attachment not found")
               ELSE [calls |-> calls, diags |-> <<>>, wrote |-> TRUE, panic |-> FALSE,
                     state |-> [Id |-> TfVal(Deref(v2d.v.Attachments)[at].Id), ScriptId |-> TfVal(scriptID),
                                Filename |-> TfVal(filename), Content |-> content]]

ScriptAttachmentResourceByFilename_Create(plan, createRes, scriptRes) ==
    LET c1 == CallLegacyAction("CreateScriptAttachment", AttachmentVals(plan))
    IN IF AttachmentPlanMissing(plan) # "" THEN Fail(<<>>, AttachmentPlanMissing(plan))
       ELSE IF IsErr(createRes) THEN Fail(<<c1>>, "Failed to create attachment")
       ELSE IF ~IsSome(JSON200(createRes)) THEN Fail(<<c1>>, "Failed to create attachment")
       ELSE AttachmentByFilename_readAttachment(<<c1>>, ValueInt64(plan.ScriptId),
                                                ValueString(plan.Filename), plan.Content, scriptRes)

----------------------------------------------------------------------------
(* landscapeProvider.Configure *)

\* a value of the configuration, or the environment variable when the
\* configuration leaves it null; an unknown value reads as ""
Resolved(configValue, envValue) ==
    IF ~IsNull(configValue) THEN ValueString(configValue) ELSE envValue

\* the checks on unknown values that Configure starts with
UnknownConfigErrors(config) ==
    (IF IsUnknown(config.APIURL) THEN <<"Unknown API URL">> ELSE <<>>)
    \o (IF IsUnknown(config.AccessKey) /\ ~IsUnknown(config.SecretKey)
        THEN <<"Unknown Access Key">> ELSE <<>>)
    \o (IF IsUnknown(config.SecretKey) /\ ~IsUnknown(config.AccessKey)
        THEN <<"Unknown Secret Key">> ELSE <<>>)
    \o (IF IsUnknown(config.Email) /\ ~IsUnknown(config.Password)
        THEN <<"Unknown Email">> ELSE <<>>)
    \o (IF IsUnknown(config.Password) /\ ~IsUnknown(config.Email)
        THEN <<"Unknown Password">> ELSE <<>>)
    \o (IF ~IsUnknown(config.Account) /\ (IsUnknown(config.Email) \/ IsUnknown(config.Password))
        THEN <<"Account Name Requires Email/Password">> ELSE <<>>)

\* the checks on the resolved values
ResolvedErrors(apiURL, email, password, accessKey, secretKey) ==
    (IF apiURL = <<>> THEN <<"Missing Landscape API URL">> ELSE <<>>)
    \o (IF ~(email # <<>> /\ password # <<>>) /\ ~(accessKey # <<>> /\ secretKey # <<>>)
        THEN <<"Missing Authentication Credentials">> ELSE <<>>)
    \o (IF (email # <<>> /\ password = <<>>) \/ (email = <<>> /\ password # <<>>)
        THEN <<"Incomplete Email Authentication">> ELSE <<>>)
    \o (IF (accessKey # <<>> /\ secretKey = <<>>) \/ (accessKey = <<>> /\ secretKey # <<>>)
        THEN <<"Incomplete Access Key Authentication">> ELSE <<>>)

\* what Configure leaves in the response: diagnostics and the client put in
\* DataSourceData and ResourceData
Configured(diags, client) ==
    [calls |-> <<>>, diags |-> diags, wrote |-> FALSE, state |-> NoState, panic |-> FALSE,
     client |-> client]

\* a Configure that tries the access key pair first
landscapeProvider_Configure_KeyFirst(config, env, clientErr) ==
    LET apiURL == Resolved(config.APIURL, env.APIURL)
        email == Resolved(config.Email, env.Email)
        password == Resolved(config.Password, env.Password)
        accessKey == Resolved(config.AccessKey, env.AccessKey)
        secretKey == Resolved(config.SecretKey, env.SecretKey)
        account == Resolved(config.Account, env.Account)
        errs == ResolvedErrors(apiURL, email, password, accessKey, secretKey)
    IN IF HasError(UnknownConfigErrors(config)) THEN Configured(UnknownConfigErrors(config), None)
       ELSE IF HasError(errs) THEN Configured(errs, None)
       ELSE IF clientErr THEN Configured(<<"Unable to Create Landscape API Client">>, None)
       ELSE IF accessKey # <<>> /\ secretKey # <<>>
       THEN Configured(<<>>, Some([url |-> apiURL, auth |-> "access_key",
                                   user |-> accessKey, secret |-> secretKey, account |-> <<>>]))
       ELSE Configured(<<>>, Some([url |-> apiURL, auth |-> "email",
                                   user |-> email, secret |-> password, account |-> account]))

\* Configure: NewLandscapeAPIClient may fail (clientErr)
landscapeProvider_Configure(config, env, clientErr) ==
    LET apiURL == Resolved(config.APIURL, env.APIURL)
        email == Resolved(config.Email, env.Email)
        password == Resolved(config.Password, env.Password)
        accessKey == Resolved(config.AccessKey, env.AccessKey)
        secretKey == Resolved(config.SecretKey, env.SecretKey)
        account == Resolved(config.Account, env.Account)
        errs == ResolvedErrors(apiURL, email, password, accessKey, secretKey)
    IN IF HasError(UnknownConfigErrors(config)) THEN Configured(UnknownConfigErrors(config), None)
       ELSE IF HasError(errs) THEN Configured(errs, None)
       ELSE IF clientErr THEN Configured(<<"Unable to Create Landscape API Client">>, None)
       ELSE IF email # <<>> /\ password # <<>>
       THEN Configured(<<>>, Some([url |-> apiURL, auth |-> "email",
                                   user |-> email, secret |-> password, account |-> account]))
       ELSE Configured(<<>>, Some([url |-> apiURL, auth |-> "access_key",
                                   user |-> accessKey, secret |-> secretKey, account |-> <<>>]))

----------------------------------------------------------------------------
(* ScriptV1DataSource (data source landscape_script_v1)                    *)

\* v1ScriptToDataSourceState, after its code fetch: the record it returns
v1ScriptToDataSourceState(v1, rawCode) ==
    [panic |-> FALSE,
     diags |-> <<>>,
     state |->
        [Id |-> TfVal(v1.Id),
         Title |-> TfVal(v1.Title),
         AccessGroup |-> PointerValue(v1.AccessGroup),
         Code |-> TfVal(rawCode),
         CreatedBy |-> V1Creator(v1),
         Status |-> TfVal(v1.Status),
         Username |-> PointerValue(v1.Username),
         TimeLimit |-> PointerValue(v1.TimeLimit),
         Attachments |-> V1AttachmentsFilenameOnly(v1)]]

ScriptV1DataSource_Read(idValue, scriptRes, codeRes) ==
    LET c1 == CallGetScript(ValueInt64(idValue))
    IN IF IsUnknown(idValue) \/ IsNull(idValue) THEN Fail(<<>>, "Missing script ID")
       ELSE IF IsErr(scriptRes) THEN Fail(<<c1>>, "Failed to read script")
       ELSE IF ~IsSome(JSON200(scriptRes)) THEN Fail(<<c1>>, "Failed to get script")
       ELSE LET v1d == AsV1Script(Deref(JSON200(scriptRes)))
                f == fetchV1Code(v1d.v.Id, codeRes)
            IN IF ~v1d.ok THEN Fail(<<c1>>, "Failed to convert script")
               ELSE AfterFetch(<<c1>>, f, v1ScriptToDataSourceState(v1d.v, f.raw))

----------------------------------------------------------------------------
(* ImportState of the legacy resource *)

\* the decimal digits of the largest int64, 9223372036854775807
MaxInt64Text == <<57, 50, 50, 51, 51, 55, 50, 48, 51, 54, 56, 53, 52, 55, 55, 53, 56, 48, 55>>

AllDigits(s) == \A i \in 1..Len(s) : s[i] >= 48 /\ s[i] <= 57

RECURSIVE StripZeros(_)
StripZeros(s) == IF Len(s) > 1 /\ s[1] = 48 THEN StripZeros(Tail(s)) ELSE s

\* the number written by the digits d is larger than the one written by lim
DigitsExceed(d, lim) ==
    \/ Len(d) > Len(lim)
    \/ /\ Len(d) = Len(lim)
       /\ \E i \in 1..Len(d) : d[i] > lim[i] /\ \A j \in 1..(i - 1) : d[j] = lim[j]

RECURSIVE DigitsValue(_)
DigitsValue(s) ==
    IF Len(s) = 0 THEN 0 ELSE 10 * DigitsValue(SubSeq(s, 1, Len(s) - 1)) + (s[Len(s)] - 48)

\* strconv.ParseInt(s, 10, 64): an optional sign, then one or more decimal
\* digits; a value outside the int64 range is an error.  The magnitude
\* 9223372036854775808 is allowed after a minus sign only
ParseInt(s) ==
    LET signed == Len(s) > 0 /\ s[1] \in {43, 45}
        neg == Len(s) > 0 /\ s[1] = 45
        digits == IF signed THEN Tail(s) ELSE s
        syntax == Len(digits) > 0 /\ AllDigits(digits)
        range == syntax /\
                 IF neg
                 THEN ~DigitsExceed(StripZeros(digits), [MaxInt64Text EXCEPT ![19] = 56])
                 ELSE ~DigitsExceed(StripZeros(digits), MaxInt64Text)
    IN [ok |-> syntax /\ range,
        v |-> IF syntax /\ range
              THEN (IF neg THEN 0 - DigitsValue(digits) ELSE DigitsValue(digits))
              ELSE 0]

\* an ImportState of the legacy resource that stores id 0 for an id it
\* cannot parse
ScriptV1Resource_ImportState_Lenient(id) ==
    IF id = <<>> THEN Fail(<<>>, "Invalid import ID")
    ELSE [calls |-> <<>>, diags |-> <<>>, wrote |-> TRUE,
          state |-> [Id |-> TfVal(ParseInt(id).v), Title |-> TfNull, AccessGroup |-> TfNull,
                     Code |-> TfNull, CreatedBy |-> TfNull, Status |-> TfNull,
                     Username |-> TfNull, TimeLimit |-> TfNull, Attachments |-> TfNull],
          panic |-> FALSE]

ScriptV1Resource_ImportState(id) ==
    IF id = <<>> THEN Fail(<<>>, "Invalid import ID")
    ELSE IF ~ParseInt(id).ok THEN Fail(<<>>, "Invalid import ID")
    ELSE [calls |-> <<>>, diags |-> <<>>, wrote |-> TRUE,
          state |-> [Id |-> TfVal(ParseInt(id).v), Title |-> TfNull, AccessGroup |-> TfNull,
                     Code |-> TfNull, CreatedBy |-> TfNull, Status |-> TfNull,
                     Username |-> TfNull, TimeLimit |-> TfNull, Attachments |-> TfNull],
          panic |-> FALSE]

----------------------------------------------------------------------------
(* Inputs: what Terraform hands to a handler, and what the remote answers  *)

Ids == 1..MaxId
TfIds == {TfNull, TfUnknown} \cup {TfVal(i) : i \in Ids}
Titles == {sT, sU}
Codes == {sHi, sEcho, sBin}

\* attachment collections up to MaxAtt elements, of filenames and objects
AttItems == {AttStr(sA), AttObj(3, sB)}
AttLists == UNION {[1..n -> AttItems] : n \in 0..MaxAtt}
AttOpts == {None} \cup {Some(l) : l \in AttLists}

\* plans and prior states of the script resources
Plans ==
    [Title : {TfVal(t) : t \in Titles},
     Code : {TfVal(sHi), TfVal(sEcho)},
     Username : {TfNull, TfVal(sJan)},
     TimeLimit : {TfNull, TfVal(5)},
     AccessGroup : {TfNull, TfVal(sA)}]

CreatePlans ==
    [Title : {TfNull} \cup {TfVal(t) : t \in Titles},
     Code : {TfUnknown} \cup {TfVal(c) : c \in Codes},
     Username : {TfNull, TfVal(sJan)},
     TimeLimit : {TfNull, TfVal(5)},
     AccessGroup : {TfNull, TfVal(sA)}]

\* plans of the unified resource's Create: status may be absent, written in
\* lower or mixed case, or a word that is no status ("V2", "jan")
UnifiedCreatePlans ==
    [Title : {TfNull, TfVal(sT)},
     Code : {TfUnknown, TfVal(sHi)},
     Username : {TfNull, TfVal(sJan)},
     TimeLimit : {TfNull, TfVal(5)},
     AccessGroup : {TfNull},
     Status : {TfNull, TfUnknown, TfVal(sv1), TfVal(sACTIVE), TfVal(sV2), TfVal(sJan),
               TfVal(sArchived), TfVal(sREDACTED)}]

PriorStates(statuses) ==
    [Id : {TfVal(i) : i \in Ids},
     Title : {TfVal(t) : t \in Titles},
     Code : {TfVal(sHi), TfVal(sEcho)},
     Username : {TfNull, TfVal(sJan)},
     TimeLimit : {TfNull, TfVal(5)},
     Status : statuses]

DeleteStates ==
    [Id : TfIds,
     Status : {TfNull, TfVal(sV1), TfVal(sACTIVE), TfVal(sARCHIVED), TfVal(sREDACTED)}]

ReadStates == [Id : TfIds]
ReadStatesWithType == [Id : TfIds, ScriptType : {TfNull, TfVal(sV1), TfVal(sv1), TfVal(sV2)}]

\* import ids as the user may type them, each with the integer it writes in
\* base 10 if it writes one that fits 64 bits
ImportCases ==
    {[text |-> Itoa(i), value |-> Some(i)] : i \in Ids} \cup
    {[text |-> <<49, 50>>, value |-> Some(12)],              \* "12"
     [text |-> <<48, 48, 55>>, value |-> Some(7)],           \* "007"
     [text |-> <<45, 51>>, value |-> Some(0 - 3)],           \* "-3"
     [text |-> <<43, 52>>, value |-> Some(4)],               \* "+4"
     [text |-> <<>>, value |-> None],                        \* ""
     [text |-> <<97>>, value |-> None],                      \* "a"
     [text |-> <<49, 97>>, value |-> None],                  \* "1a"
     [text |-> <<45>>, value |-> None],                      \* "-"
     [text |-> <<49, 32>>, value |-> None],                  \* "1 "
     [text |-> <<49, 95, 48>>, value |-> None],              \* "1_0"
     [text |-> <<49, 46, 48>>, value |-> None],              \* "1.0"
     [text |-> [MaxInt64Text EXCEPT ![19] = 56], value |-> None]}   \* 2^63

\* script payloads the remote may answer with
V1Payloads ==
    {RawV1(id, sT, Some(sJan), Some(5), atts) : id \in Ids, atts \in AttOpts}
V2Payloads ==
    {RawV2(id, sT, st, None, None, interp, code, atts) :
        id \in Ids, st \in {sACTIVE}, interp \in {None, Some(sBash)},
        code \in {None, Some(sEcho)}, atts \in AttOpts}
OddPayloads ==
    {JsonOther, JsonString(sHi), EmptyObject,
     [RawV2(1, sT, sARCHIVED, None, None, Some(sBash), Some(sEcho), None)
        EXCEPT !.created_by = Some([id |-> None, name |-> Some(sJan)])],
     [RawV2(1, sT, sACTIVE, Some(sJan), Some(5), Some(sBash), Some(sEcho), None)
        EXCEPT !.script_profiles = Some(<<[id |-> 4, title |-> sU]>>),
               !.last_edited_by = Some([id |-> None, name |-> Some(sJan)])],
     [RawV2(1, sT, sV1, None, None, Some(sBash), Some(sEcho), Some(<<AttObj(3, sB)>>))
        EXCEPT !.script_profiles = Some(<<>>)]}
Payloads == V1Payloads \cup V2Payloads \cup OddPayloads

SmallPayloads ==
    {RawV1(1, sU, Some(sJan), Some(5), Some(<<AttStr(sA)>>)),
     RawV2(1, sU, sACTIVE, Some(sJan), Some(5), Some(sBash), Some(sEcho), Some(<<AttObj(3, sB)>>)),
     RawV2(1, sU, sACTIVE, None, None, None, None, Some(<<AttStr(sA), AttObj(3, sB)>>)),
     JsonOther}

ErrorResponses ==
    {TransportError, Http(400, Some(sA), JsonOther), Http(400, None, JsonOther),
     Http(404, Some(sA), JsonOther), Http(404, None, JsonOther), Http(500, None, JsonOther)}

\* answers to a call whose response body the handler does not read
MutationResponses ==
    {TransportError, Ok(JsonOther), Http(400, Some(sA), JsonOther), Http(404, Some(sA), JsonOther)}

ScriptResponses == ErrorResponses \cup {Ok(p) : p \in Payloads}
SmallResponses == {TransportError, Http(404, Some(sA), JsonOther)} \cup {Ok(p) : p \in SmallPayloads}
CodeResponses ==
    {TransportError, Http(404, Some(sA), JsonOther), Ok(JsonOther)} \cup {Ok(JsonString(c)) : c \in Codes}
SmallCodeResponses == {Http(404, Some(sA), JsonOther), Ok(JsonString(sHi))}

\* decoded scripts handed to the projections
V2Scripts == {AsV2Script(p).v : p \in {q \in Payloads : AsV2Script(q).ok}}

\* plans and prior states of the attachment resources
AttachmentModels ==
    [Id : {TfUnknown} \cup {TfVal(i) : i \in Ids},
     ScriptId : {TfVal(i) : i \in Ids},
     Filename : {TfVal(sA), TfVal(sB)},
     Content : {TfVal(sHi), TfVal(sEcho)}]

\* plans of an attachment's Create: the id is not computed yet
AttachmentCreatePlans ==
    [Id : {TfUnknown},
     ScriptId : {TfVal(1)},
     Filename : {TfVal(sA), TfVal(sB)},
     Content : {TfVal(sEmpty), TfVal(sHi)}]

\* the owning script as it is re-read after the upload
AttachmentObjLists == UNION {[1..n -> {AttObj(3, sA), AttObj(4, sB), AttObj(5, sB)}] : n \in 0..MaxAtt}
AttachmentScriptResponses ==
    {TransportError, Http(404, Some(sA), JsonOther),
     Ok(RawV1(1, sT, None, None, Some(<<AttStr(sA)>>))),
     Ok(RawV1(1, sT, None, None, None)),
     Ok(RawV2(1, sT, sACTIVE, None, None, None, None, None))}
    \cup {Ok(RawV2(1, sT, sACTIVE, None, None, None, None, Some(l))) : l \in AttachmentObjLists}

\* answers to GetScriptAttachment
ContentResponses ==
    {TransportError, Http(404, Some(sA), JsonOther), Http(404, None, JsonOther),
     Http(500, None, RawBody(sA)), Ok(RawBody(sEmpty)), Ok(RawBody(sHi)), Ok(JsonString(sHi))}

\* provider configurations and environments: a value is not set, not known
\* yet, or set; an environment variable that is not set reads as ""
ProviderConfigs ==
    [APIURL : {TfNull, TfUnknown, TfVal(sEmpty), TfVal(sU)},
     Email : {TfNull, TfUnknown, TfVal(sEmpty), TfVal(sJan)},
     Password : {TfNull, TfUnknown, TfVal(sA)},
     AccessKey : {TfNull, TfUnknown, TfVal(sA)},
     SecretKey : {TfNull, TfUnknown, TfVal(sB)},
     Account : {TfNull, TfUnknown, TfVal(sT)}]
ProviderEnvs ==
    [APIURL : {sEmpty, sT},
     Email : {sEmpty, sHi},
     Password : {sEmpty, sB},
     AccessKey : {sEmpty, sB},
     SecretKey : {sEmpty, sA},
     Account : {sEmpty}]

----------------------------------------------------------------------------
(* The state machine: Terraform invokes one handler at a time; each call   *)
(* runs to completion and its outcome is recorded in last.                 *)

Idle == [op |-> "idle", in |-> NoState, out |-> NoState]
NoScript == [present |-> FALSE, title |-> <<>>, code |-> <<>>, variant |-> <<>>]

Init ==
    /\ last = Idle
    /\ remote = [i \in Ids |-> NoScript]
    /\ tfV1 = None
    /\ made = None

DoScriptV1Create ==
    /\ last.op = "idle"
    /\ \E plan \in CreatePlans, res \in SmallResponses \cup {Http(400, None, JsonOther), Http(500, None, JsonOther)},
           codeRes \in CodeResponses :
          last' = [op |-> "ScriptV1Resource.Create",
                   in |-> [plan |-> plan, res |-> res, codeRes |-> codeRes],
                   out |-> ScriptV1Resource_Create(plan, res, codeRes)]
    /\ UNCHANGED <<remote, tfV1, made>>

DoScriptV1Read ==
    /\ last.op = "idle"
    /\ \E current \in ReadStates, res \in ScriptResponses, codeRes \in SmallCodeResponses :
          last' = [op |-> "ScriptV1Resource.Read",
                   in |-> [state |-> current, res |-> res, codeRes |-> codeRes],
                   out |-> ScriptV1Resource_Read(current, res, codeRes)]
    /\ UNCHANGED <<remote, tfV1, made>>

DoScriptV1Update ==
    /\ last.op = "idle"
    /\ \E plan \in Plans, state \in PriorStates({TfVal(sV1)}), res \in SmallResponses, codeRes \in SmallCodeResponses :
          last' = [op |-> "ScriptV1Resource.Update",
                   in |-> [plan |-> plan, state |-> state, res |-> res, codeRes |-> codeRes],
                   out |-> ScriptV1Resource_Update(plan, state, res, codeRes)]
    /\ UNCHANGED <<remote, tfV1, made>>

DoScriptV1Delete ==
    /\ last.op = "idle"
    /\ \E state \in DeleteStates, mres \in MutationResponses :
          last' = [op |-> "ScriptV1Resource.Delete",
                   in |-> [state |-> state, err |-> IsErr(mres), mres |-> mres],
                   out |-> ScriptV1Resource_Delete(state, IsErr(mres))]
    /\ UNCHANGED <<remote, tfV1, made>>

DoScriptV1ImportState ==
    /\ last.op = "idle"
    /\ \E c \in ImportCases :
          last' = [op |-> "ScriptV1Resource.ImportState",
                   in |-> [id |-> c.text],
                   out |-> ScriptV1Resource_ImportState(c.text)]
    /\ UNCHANGED <<remote, tfV1, made>>

DoScriptV2Create ==
    /\ last.op = "idle"
    /\ \E plan \in CreatePlans, res \in SmallResponses :
          last' = [op |-> "ScriptV2Resource.Create",
                   in |-> [plan |-> plan, res |-> res],
                   out |-> ScriptV2Resource_Create(plan, res)]
    /\ UNCHANGED <<remote, tfV1, made>>

DoScriptV2Read ==
    /\ last.op = "idle"
    /\ \E current \in ReadStates, res \in ScriptResponses :
          last' = [op |-> "ScriptV2Resource.Read",
                   in |-> [state |-> current, res |-> res],
                   out |-> ScriptV2Resource_Read(current, res)]
    /\ UNCHANGED <<remote, tfV1, made>>

DoScriptV2Update ==
    /\ last.op = "idle"
    /\ \E plan \in Plans, state \in PriorStates({TfVal(sACTIVE)}), res \in SmallResponses :
          last' = [op |-> "ScriptV2Resource.Update",
                   in |-> [plan |-> plan, state |-> state, res |-> res],
                   out |-> ScriptV2Resource_Update(plan, state, res)]
    /\ UNCHANGED <<remote, tfV1, made>>

DoScriptV2Delete ==
    /\ last.op = "idle"
    /\ \E state \in DeleteStates, mres \in MutationResponses :
          last' = [op |-> "ScriptV2Resource.Delete",
                   in |-> [state |-> state, err |-> IsErr(mres), mres |-> mres],
                   out |-> ScriptV2Resource_Delete(state, IsErr(mres))]
    /\ UNCHANGED <<remote, tfV1, made>>

DoScriptCreate ==
    /\ last.op = "idle"
    /\ \E plan \in UnifiedCreatePlans, res \in SmallResponses \cup {Http(400, None, JsonOther)},
          codeRes \in SmallCodeResponses :
          last' = [op |-> "ScriptResource.Create",
                   in |-> [plan |-> plan, res |-> res, codeRes |-> codeRes],
                   out |-> ScriptResource_Create(plan, res, codeRes)]
    /\ UNCHANGED <<remote, tfV1, made>>

DoScriptRead ==
    /\ last.op = "idle"
    /\ \E current \in ReadStates, res \in ScriptResponses, codeRes \in SmallCodeResponses :
          last' = [op |-> "ScriptResource.Read",
                   in |-> [state |-> current, res |-> res, codeRes |-> codeRes],
                   out |-> ScriptResource_Read(current, res, codeRes)]
    /\ UNCHANGED <<remote, tfV1, made>>

DoScriptUpdate ==
    /\ last.op = "idle"
    /\ \E plan \in Plans, state \in PriorStates({TfVal(sV1), TfVal(sACTIVE)}), mres \in MutationResponses, res \in {Ok(q) : q \in SmallPayloads}, codeRes \in {Ok(JsonString(sHi))} :
          last' = [op |-> "ScriptResource.Update",
                   in |-> [plan |-> plan, state |-> state, err |-> IsErr(mres), mres |-> mres, res |-> res, codeRes |-> codeRes],
                   out |-> ScriptResource_Update(plan, state, IsErr(mres), res, codeRes)]
    /\ UNCHANGED <<remote, tfV1, made>>

DoScriptDelete ==
    /\ last.op = "idle"
    /\ \E state \in DeleteStates, mres \in MutationResponses :
          last' = [op |-> "ScriptResource.Delete",
                   in |-> [state |-> state, err |-> IsErr(mres), mres |-> mres],
                   out |-> ScriptResource_Delete(state, IsErr(mres))]
    /\ UNCHANGED <<remote, tfV1, made>>

DoScriptWithTypeRead ==
    /\ last.op = "idle"
    /\ \E current \in ReadStatesWithType, res \in ScriptResponses, codeRes \in SmallCodeResponses :
          last' = [op |-> "ScriptResourceWithType.Read",
                   in |-> [state |-> current, res |-> res, codeRes |-> codeRes],
                   out |-> ScriptResourceWithType_Read(current, res, codeRes)]
    /\ UNCHANGED <<remote, tfV1, made>>

DoScriptDataSourceRead ==
    /\ last.op = "idle"
    /\ \E id \in TfIds, res \in ScriptResponses, codeRes \in SmallCodeResponses :
          last' = [op |-> "ScriptDataSource.Read",
                   in |-> [id |-> id, res |-> res, codeRes |-> codeRes],
                   out |-> ScriptDataSource_Read(id, res, codeRes)]
    /\ UNCHANGED <<remote, tfV1, made>>

DoV1ScriptDataSourceRead ==
    /\ last.op = "idle"
    /\ \E id \in TfIds, res \in ScriptResponses :
          last' = [op |-> "v1ScriptDataSource.Read",
                   in |-> [id |-> id, res |-> res],
                   out |-> v1ScriptDataSource_Read(id, res)]
    /\ UNCHANGED <<remote, tfV1, made>>

DoV1ScriptDataSourceWithCodeRead ==
    /\ last.op = "idle"
    /\ \E id \in TfIds, res \in ScriptResponses, codeRes \in CodeResponses :
          last' = [op |-> "v1ScriptDataSourceWithCode.Read",
                   in |-> [id |-> id, res |-> res, codeRes |-> codeRes],
                   out |-> v1ScriptDataSourceWithCode_Read(id, res, codeRes)]
    /\ UNCHANGED <<remote, tfV1, made>>

DoScriptDataSourceDynamicRead ==
    /\ last.op = "idle"
    /\ \E id \in TfIds, res \in ScriptResponses :
          last' = [op |-> "scriptDataSource.Read",
                   in |-> [id |-> id, res |-> res],
                   out |-> scriptDataSource_Read(id, res)]
    /\ UNCHANGED <<remote, tfV1, made>>

DoScriptV1DataSourceRead ==
    /\ last.op = "idle"
    /\ \E id \in TfIds, res \in ScriptResponses, codeRes \in SmallCodeResponses :
          last' = [op |-> "ScriptV1DataSource.Read",
                   in |-> [id |-> id, res |-> res, codeRes |-> codeRes],
                   out |-> ScriptV1DataSource_Read(id, res, codeRes)]
    /\ UNCHANGED <<remote, tfV1, made>>

DoProviderConfigure ==
    /\ last.op = "idle"
    /\ \E config \in ProviderConfigs, env \in ProviderEnvs, clientErr \in BOOLEAN :
          last' = [op |-> "landscapeProvider.Configure",
                   in |-> [config |-> config, env |-> env, clientErr |-> clientErr],
                   out |-> landscapeProvider_Configure(config, env, clientErr)]
    /\ UNCHANGED <<remote, tfV1, made>>

DoV2AttachmentCreate ==
    /\ last.op = "idle"
    /\ \E plan \in AttachmentCreatePlans, createRes \in MutationResponses,
          scriptRes \in AttachmentScriptResponses, contentRes \in ContentResponses :
          last' = [op |-> "ScriptV2AttachmentResource.Create",
                   in |-> [plan |-> plan, createRes |-> createRes, res |-> scriptRes, contentRes |-> contentRes],
                   out |-> ScriptV2AttachmentResource_Create(plan, createRes, scriptRes, contentRes)]
    /\ UNCHANGED <<remote, tfV1, made>>

DoV2AttachmentRead ==
    /\ last.op = "idle"
    /\ \E state \in AttachmentModels, contentRes \in ContentResponses :
          last' = [op |-> "ScriptV2AttachmentResource.Read",
                   in |-> [state |-> state, contentRes |-> contentRes],
                   out |-> ScriptV2AttachmentResource_Read(state, contentRes)]
    /\ UNCHANGED <<remote, tfV1, made>>

DoAttachmentCreate ==
    /\ last.op = "idle"
    /\ \E plan \in AttachmentCreatePlans, createRes \in MutationResponses,
          scriptRes \in AttachmentScriptResponses, contentRes \in ContentResponses :
          last' = [op |-> "ScriptAttachmentResource.Create",
                   in |-> [plan |-> plan, createRes |-> createRes, res |-> scriptRes, contentRes |-> contentRes],
                   out |-> ScriptAttachmentResource_Create(plan, createRes, scriptRes, contentRes)]
    /\ UNCHANGED <<remote, tfV1, made>>

DoAttachmentByFilenameCreate ==
    /\ last.op = "idle"
    /\ \E plan \in AttachmentCreatePlans, createRes \in MutationResponses,
          scriptRes \in AttachmentScriptResponses :
          last' = [op |-> "ScriptAttachmentResourceByFilename.Create",
                   in |-> [plan |-> plan, createRes |-> createRes, res |-> scriptRes],
                   out |-> ScriptAttachmentResourceByFilename_Create(plan, createRes, scriptRes)]
    /\ UNCHANGED <<remote, tfV1, made>>

DoV2AttachmentUpdate ==
    /\ last.op = "idle"
    /\ \E plan \in AttachmentModels, state \in AttachmentModels :
          last' = [op |-> "ScriptV2AttachmentResource.Update",
                   in |-> [plan |-> plan, state |-> state],
                   out |-> ScriptV2AttachmentResource_Update(plan, state)]
    /\ UNCHANGED <<remote, tfV1, made>>

DoAttachmentUpdate ==
    /\ last.op = "idle"
    /\ \E plan \in AttachmentModels, state \in AttachmentModels :
          last' = [op |-> "ScriptAttachmentResource.Update",
                   in |-> [plan |-> plan, state |-> state],
                   out |-> ScriptAttachmentResource_Update(plan, state)]
    /\ UNCHANGED <<remote, tfV1, made>>

DoAttachmentByFilenameUpdate ==
    /\ last.op = "idle"
    /\ \E plan \in AttachmentModels, state \in AttachmentModels :
          last' = [op |-> "ScriptAttachmentResourceByFilename.Update",
                   in |-> [plan |-> plan, state |-> state],
                   out |-> ScriptAttachmentResourceByFilename_Update(plan, state)]
    /\ UNCHANGED <<remote, tfV1, made>>

ApplyV2ScriptToResourceState ==
    /\ last.op = "idle"
    /\ \E v2Script \in V2Scripts :
          last' = [op |-> "v2ScriptToResourceState",
                   in |-> [v2Script |-> v2Script],
                   out |-> v2ScriptToResourceState(v2Script)]
    /\ UNCHANGED <<remote, tfV1, made>>

ApplyV2ScriptToDataSourceState ==
    /\ last.op = "idle"
    /\ \E v2Script \in V2Scripts :
          last' = [op |-> "v2ScriptToDataSourceState",
                   in |-> [v2Script |-> v2Script],
                   out |-> v2ScriptToDataSourceState(v2Script)]
    /\ UNCHANGED <<remote, tfV1, made>>

ApplyV2ScriptToState ==
    /\ last.op = "idle"
    /\ \E v2Script \in V2Scripts :
          last' = [op |-> "v2ScriptToState",
                   in |-> [v2Script |-> v2Script],
                   out |-> v2ScriptToState(v2Script)]
    /\ UNCHANGED <<remote, tfV1, made>>

ApplyAttachmentsAsStrings ==
    /\ last.op = "idle"
    /\ \E sai \in AttLists :
          last' = [op |-> "ScriptAttachmentItemsAsListOfStringValues",
                   in |-> [sai |-> sai],
                   out |-> ScriptAttachmentItemsAsListOfStringValues(sai)]
    /\ UNCHANGED <<remote, tfV1, made>>

ApplyAttachmentsAsObjects ==
    /\ last.op = "idle"
    /\ \E sai \in AttLists :
          last' = [op |-> "ScriptAttachmentItemsAsListOfObjectValues",
                   in |-> [sai |-> sai],
                   out |-> ScriptAttachmentItemsAsListOfObjectValues(sai)]
    /\ UNCHANGED <<remote, tfV1, made>>

\* the handler has returned; Terraform may invoke the next one
Return ==
    /\ last.op # "idle"
    /\ last' = Idle
    /\ UNCHANGED <<remote, tfV1, made>>

Next ==
    \/ DoScriptV1Create
    \/ DoScriptV1Read
    \/ DoScriptV1Update
    \/ DoScriptV1Delete
    \/ DoScriptV1ImportState
    \/ DoScriptV2Create
    \/ DoScriptV2Read
    \/ DoScriptV2Update
    \/ DoScriptV2Delete
    \/ DoScriptCreate
    \/ DoScriptRead
    \/ DoScriptUpdate
    \/ DoScriptDelete
    \/ DoScriptWithTypeRead
    \/ DoScriptDataSourceRead
    \/ DoV1ScriptDataSourceRead
    \/ DoV1ScriptDataSourceWithCodeRead
    \/ DoScriptDataSourceDynamicRead
    \/ DoScriptV1DataSourceRead
    \/ DoProviderConfigure
    \/ DoV2AttachmentCreate
    \/ DoV2AttachmentRead
    \/ DoAttachmentCreate
    \/ DoAttachmentByFilenameCreate
    \/ DoV2AttachmentUpdate
    \/ DoAttachmentUpdate
    \/ DoAttachmentByFilenameUpdate
    \/ ApplyV2ScriptToResourceState
    \/ ApplyV2ScriptToDataSourceState
    \/ ApplyV2ScriptToState
    \/ ApplyAttachmentsAsStrings
    \/ ApplyAttachmentsAsObjects
    \/ Return

Spec == Init /\ [][Next]_vars

----------------------------------------------------------------------------
(* Properties of Delete and of the attachment resources' Update *)

\* C1: ScriptV2Resource.Delete issues exactly one remote call, ArchiveScript
\* for the script id in state, and no RemoveScript; ScriptV1Resource.Delete
\* with a known id issues exactly one remote call, the RemoveScript legacy
\* action for that id, and no ArchiveScript.
C1_DeleteCalls ==
    /\ last.op = "ScriptV2Resource.Delete" =>
          /\ Len(last.out.calls) = 1
          /\ last.out.calls[1].api = "ArchiveScript"
          /\ last.out.calls[1].id = ValueInt64(last.in.state.Id)
    /\ (last.op = "ScriptV1Resource.Delete" /\ IsKnown(last.in.state.Id)) =>
          /\ Len(last.out.calls) = 1
          /\ last.out.calls[1].api = "InvokeLegacyAction"
          /\ last.out.calls[1].action = "RemoveScript"
          /\ last.out.calls[1].params = [script_id |-> Itoa(last.in.state.Id[2])]

\* a legacy Delete for script 2 that went through and removed it
C1_Witness ==
    /\ last.op = "ScriptV1Resource.Delete"
    /\ last.in.state.Id = TfVal(2)
    /\ ~last.in.err
    /\ last.out.diags = <<>>
    /\ last.out.calls[1].action = "RemoveScript"
    /\ last.out.calls[1].params["script_id"] = <<50>>

\* C2: ScriptResource.Delete (the unified resource) with a known id picks
\* the remote operation from the status in state: a modern status gives
\* exactly one ArchiveScript call, status V1 exactly one RemoveScript
\* legacy action, and never both or neither.
C2_UnifiedDeleteByStatus ==
    (/\ last.op = "ScriptResource.Delete"
     /\ IsKnown(last.in.state.Id)
     /\ IsKnown(last.in.state.Status)) =>
        /\ Len(last.out.calls) = 1
        /\ IF last.in.state.Status = TfVal(sV1)
           THEN /\ last.out.calls[1].api = "InvokeLegacyAction"
                /\ last.out.calls[1].action = "RemoveScript"
                /\ last.out.calls[1].params = [script_id |-> Itoa(last.in.state.Id[2])]
           ELSE /\ last.out.calls[1].api = "ArchiveScript"
                /\ last.out.calls[1].id = last.in.state.Id[2]

\* the part of C2 the code does keep: status V1 gives one RemoveScript
C2_LegacyArmHolds ==
    (/\ last.op = "ScriptResource.Delete"
     /\ IsKnown(last.in.state.Id)
     /\ last.in.state.Status = TfVal(sV1)) =>
        /\ Len(last.out.calls) = 1
        /\ last.out.calls[1].action = "RemoveScript"

\* C3: Update on any attachment resource returns an error diagnostic saying
\* that attachments are immutable and must be recreated (or replaced),
\* issues no remote call and writes no state.
C3_AttachmentUpdateRefused ==
    last.op \in {"ScriptV2AttachmentResource.Update", "ScriptAttachmentResource.Update",
                 "ScriptAttachmentResourceByFilename.Update"} =>
        /\ last.out.diags \in {<<"Update not supported for script attachments">>,
                               <<"Attachment Update not supported">>}
        /\ last.out.calls = <<>>
        /\ ~last.out.wrote
        /\ ~last.out.panic

\* an attachment Update that plans another filename and is refused
C3_Witness ==
    /\ last.op = "ScriptAttachmentResource.Update"
    /\ last.in.plan.Filename # last.in.state.Filename
    /\ HasError(last.out.diags)
    /\ ~last.out.wrote

----------------------------------------------------------------------------
(* Properties of Update's request and of the projections *)

UpdateOps == {"ScriptV2Resource.Update", "ScriptResource.Update"}
SentParams == DOMAIN last.out.calls[1].params

\* Terraform calls Update when the plan differs from prior state
PlanDiffers ==
    \/ last.in.plan.Title # last.in.state.Title
    \/ last.in.plan.Code # last.in.state.Code
    \/ last.in.plan.Username # last.in.state.Username
    \/ last.in.plan.TimeLimit # last.in.state.TimeLimit

\* C4: an Update of a modern-variant script sends an EditScript request in
\* which a parameter other than script_id is present only when its planned
\* value differs from the prior state's value; when only title differs the
\* parameters are exactly script_id and title, with no code, username or
\* time_limit.
C4_OnlyChangedParamsSent ==
    (/\ last.op \in UpdateOps
     /\ last.in.state.Status = TfVal(sACTIVE)
     /\ PlanDiffers) =>
        /\ last.out.calls[1].action = "EditScript"
        /\ "script_id" \in SentParams
        /\ "title" \in SentParams => last.in.plan.Title # last.in.state.Title
        /\ "code" \in SentParams => last.in.plan.Code # last.in.state.Code
        /\ "username" \in SentParams => last.in.plan.Username # last.in.state.Username
        /\ "time_limit" \in SentParams => last.in.plan.TimeLimit # last.in.state.TimeLimit
        /\ (/\ last.in.plan.Title # last.in.state.Title
            /\ last.in.plan.Code = last.in.state.Code
            /\ last.in.plan.Username = last.in.state.Username
            /\ last.in.plan.TimeLimit = last.in.state.TimeLimit)
           => SentParams = {"script_id", "title"}

\* the part of C4 the code does keep: code is sent only when it changed
C4_CodeOnlyWhenChanged ==
    last.op \in UpdateOps =>
        ("code" \in SentParams <=> last.in.plan.Code # last.in.state.Code)

V2ProjectionOps == {"v2ScriptToResourceState", "v2ScriptToDataSourceState", "v2ScriptToState"}

\* C5: each of the three projections of a modern payload gives
\* code = "#!" + interpreter + newline + body exactly when interpreter and
\* code are both present, and a null code when either is missing.
C5_MergedCodeExact ==
    (last.op \in V2ProjectionOps /\ ~last.out.panic) =>
        IF Len(last.in.v2Script.Interpreter) = 1 /\ Len(last.in.v2Script.Code) = 1
        THEN last.out.state.Code =
                <<"known", <<35, 33>> \o last.in.v2Script.Interpreter[1]
                                      \o <<10>> \o last.in.v2Script.Code[1]>>
        ELSE last.out.state.Code = <<"null">>

\* the unified projection of a payload that has a body but no interpreter
C5_Witness ==
    /\ last.op = "v2ScriptToState"
    /\ last.in.v2Script.Interpreter = None
    /\ last.in.v2Script.Code = Some(sEcho)
    /\ last.out.state.Code = TfNull

\* the attachments of the payload a Read received, when it received one
ReadAttachments == last.in.res.body.attachments
ReadGotObject ==
    /\ last.op \in {"scriptDataSource.Read", "ScriptResource.Read"}
    /\ IsKnown(IF last.op = "ScriptResource.Read" THEN last.in.state.Id ELSE last.in.id)
    /\ last.in.res.kind = "http" /\ last.in.res.status = 200
    /\ last.in.res.body.json = "object"
    /\ IsSome(ReadAttachments) /\ Len(Deref(ReadAttachments)) > 0
    /\ last.op = "ScriptResource.Read" =>
          (last.in.codeRes.kind = "http" /\ last.in.codeRes.status = 200)
    \* bare filenames come with the status V1 the unified resource dispatches on
    /\ (last.op = "ScriptResource.Read" /\ AllStr(Deref(ReadAttachments))) =>
          last.in.res.body.status = sV1
    /\ ~last.out.panic

\* C6: a read projects an attachment collection of bare filenames to
\* entries without an id (bare names, or objects whose id is null), a collection of {id, filename} objects to entries
\* carrying those ids, and fails with an error diagnostic on a collection
\* that mixes both shapes, never dropping elements or the whole attribute.
C6_AttachmentShapes ==
    ReadGotObject =>
        LET items == Deref(ReadAttachments)
        IN IF AllStr(items)
           THEN /\ last.out.wrote
                /\ last.out.state.Attachments =
                      TfVal([i \in 1..Len(items) |->
                               IF last.op = "scriptDataSource.Read"
                               THEN TfVal(items[i].filename)
                               ELSE [id |-> TfNull, filename |-> TfVal(items[i].filename)]])
           ELSE IF AllObj(items)
           THEN /\ last.out.wrote
                /\ last.out.state.Attachments =
                      TfVal([i \in 1..Len(items) |->
                               [id |-> TfVal(items[i].id), filename |-> TfVal(items[i].filename)]])
           ELSE /\ HasError(last.out.diags)
                /\ ~last.out.wrote

\* the part of C6 the unified resource's Read keeps
C6_UnifiedReadShapes ==
    (ReadGotObject /\ last.op = "ScriptResource.Read") =>
        LET items == Deref(ReadAttachments)
        IN IF AllStr(items) \/ AllObj(items)
           THEN last.out.wrote => Len(last.out.state.Attachments[2]) = Len(items)
           ELSE HasError(last.out.diags) /\ ~last.out.wrote

\* C7: when the attachment collection is absent or empty, projection yields
\* an empty list that is present: never a null list, and never a failed
\* conversion.
C7_EmptyAttachmentsPresent ==
    /\ (/\ last.op \in V2ProjectionOps
        /\ ~last.out.panic
        /\ (last.in.v2Script.Attachments = None \/ last.in.v2Script.Attachments = Some(<<>>)))
       => last.out.state.Attachments = TfVal(<<>>)
    /\ (/\ last.op \in {"ScriptAttachmentItemsAsListOfStringValues",
                        "ScriptAttachmentItemsAsListOfObjectValues"}
        /\ Len(last.in.sai) = 0)
       => (last.out.ok /\ last.out.list = TfVal(<<>>))

\* the part of C7 the projections keep: an empty collection stays a present list
C7_EmptyCollectionPresent ==
    (/\ last.op \in V2ProjectionOps
     /\ ~last.out.panic
     /\ last.in.v2Script.Attachments = Some(<<>>))
    => last.out.state.Attachments = TfVal(<<>>)

----------------------------------------------------------------------------
(* A session of one landscape_script_v1 resource against a remote that     *)
(* keeps what it is sent.  The remote is the Landscape server: it decodes  *)
(* the base64 code of a CreateScript request, stores title and code under  *)
(* a fresh id, and answers GetScript and GetScriptCode from its store.     *)

B64Index(c) ==
    IF c >= 65 /\ c <= 90 THEN c - 65
    ELSE IF c >= 97 /\ c <= 122 THEN c - 71
    ELSE IF c >= 48 /\ c <= 57 THEN c + 4
    ELSE IF c = 43 THEN 62
    ELSE IF c = 47 THEN 63
    ELSE -1

\* base64 decoding of a padded string: [ok, v]
RECURSIVE DecodeString(_)
DecodeString(s) ==
    IF Len(s) = 0 THEN [ok |-> TRUE, v |-> <<>>]
    ELSE IF Len(s) < 4 \/ B64Index(s[1]) < 0 \/ B64Index(s[2]) < 0 THEN [ok |-> FALSE, v |-> <<>>]
    ELSE LET a == B64Index(s[1])
             b == B64Index(s[2])
             c == B64Index(s[3])
             d == B64Index(s[4])
             rest == DecodeString(SubSeq(s, 5, Len(s)))
         IN IF s[3] = 61 /\ s[4] = 61
            THEN [ok |-> Len(s) = 4, v |-> <<a * 4 + b \div 16>>]
            ELSE IF s[4] = 61
            THEN [ok |-> Len(s) = 4 /\ c >= 0,
                  v |-> <<a * 4 + b \div 16, (b % 16) * 16 + c \div 4>>]
            ELSE [ok |-> c >= 0 /\ d >= 0 /\ rest.ok,
                  v |-> <<a * 4 + b \div 16, (b % 16) * 16 + c \div 4, (c % 4) * 64 + d>> \o rest.v]

\* the decimal number a string of digits denotes
RECURSIVE Atoi(_)
Atoi(s) == IF Len(s) = 0 THEN 0 ELSE Atoi(SubSeq(s, 1, Len(s) - 1)) * 10 + (s[Len(s)] - 48)

NotFound == Http(404, Some(sA), JsonOther)
BadRequest == Http(400, Some(sA), JsonOther)

RemoteScript(store, id) == RawV1(id, store[id].title, None, None, None)

\* CreateScript: the new store and the answer
RemoteCreateScript(store, id, up, params) ==
    IF ~up THEN [store |-> store, res |-> TransportError]
    ELSE IF ~DecodeString(params["code"]).ok THEN [store |-> store, res |-> BadRequest]
    ELSE LET new == [store EXCEPT ![id] = [present |-> TRUE, title |-> params["title"],
                                           code |-> DecodeString(params["code"]).v,
                                           variant |-> params["script_type"]]]
         IN [store |-> new, res |-> Ok(RemoteScript(new, id))]

RemoteGetScript(store, up, id) ==
    IF ~up THEN TransportError
    ELSE IF id \in Ids /\ store[id].present THEN Ok(RemoteScript(store, id))
    ELSE NotFound

RemoteGetScriptCode(store, up, params) ==
    IF ~up THEN TransportError
    ELSE IF Atoi(params["script_id"]) \in Ids /\ store[Atoi(params["script_id"])].present
    THEN Ok(JsonString(store[Atoi(params["script_id"])].code))
    ELSE NotFound

RemoteRemoveScript(store, up, params) ==
    IF up /\ Atoi(params["script_id"]) \in Ids
    THEN [store EXCEPT ![Atoi(params["script_id"])] = NoScript]
    ELSE store

SessionPlans ==
    [Title : {TfVal(t) : t \in Titles},
     Code : {TfVal(c) : c \in Codes \cup {sEmpty}},
     Username : {TfNull},
     TimeLimit : {TfNull},
     AccessGroup : {TfNull}]

\* terraform apply of a new resource: ScriptV1Resource.Create against the remote
SessionCreate ==
    /\ last.op = "idle"
    /\ tfV1 = None
    /\ \E plan \in SessionPlans, id \in {i \in Ids : ~remote[i].present}, up \in BOOLEAN :
          LET request == ScriptV1Resource_Create(plan, TransportError, TransportError).calls[1]
              created == RemoteCreateScript(remote, id, up, request.params)
              fetch == ScriptV1Resource_Create(plan, created.res, TransportError).calls
              codeRes == IF Len(fetch) = 2
                         THEN RemoteGetScriptCode(created.store, up, fetch[2].params)
                         ELSE TransportError
              out == ScriptV1Resource_Create(plan, created.res, codeRes)
          IN /\ last' = [op |-> "session.Create", in |-> [plan |-> plan, up |-> up], out |-> out]
             /\ remote' = created.store
             /\ tfV1' = IF out.wrote THEN Some(out.state) ELSE None
             /\ made' = IF out.wrote
                        THEN Some([title |-> ValueString(plan.Title), code |-> ValueString(plan.Code)])
                        ELSE None

\* terraform refresh: ScriptV1Resource.Read of the id in state
SessionRead ==
    /\ last.op = "idle"
    /\ tfV1 # None
    /\ \E up \in BOOLEAN :
          LET current == Deref(tfV1)
              res == RemoteGetScript(remote, up, ValueInt64(current.Id))
              calls == ScriptV1Resource_Read(current, res, TransportError).calls
              codeRes == IF Len(calls) = 2
                         THEN RemoteGetScriptCode(remote, up, calls[2].params)
                         ELSE TransportError
              out == ScriptV1Resource_Read(current, res, codeRes)
          IN /\ last' = [op |-> "session.Read", in |-> [state |-> current, up |-> up], out |-> out]
             /\ tfV1' = IF out.wrote THEN Some(out.state) ELSE tfV1
             /\ UNCHANGED <<remote, made>>

\* terraform destroy: ScriptV1Resource.Delete of the id in state
SessionDelete ==
    /\ last.op = "idle"
    /\ tfV1 # None
    /\ \E up \in BOOLEAN :
          LET out == ScriptV1Resource_Delete(Deref(tfV1), ~up)
          IN /\ last' = [op |-> "session.Delete", in |-> [state |-> Deref(tfV1), up |-> up], out |-> out]
             /\ remote' = IF Len(out.calls) = 1
                          THEN RemoteRemoveScript(remote, up, out.calls[1].params)
                          ELSE remote
             /\ tfV1' = IF HasError(out.diags) THEN tfV1 ELSE None
             /\ made' = None

\* EditScript: the new store and the answer; a parameter that is not sent
\* leaves what is stored
RemoteEditScript(store, up, params) ==
    LET id == Atoi(params["script_id"])
        sendsCode == "code" \in DOMAIN params
        sendsTitle == "title" \in DOMAIN params
    IN IF ~up THEN [store |-> store, res |-> TransportError]
       ELSE IF ~(id \in Ids /\ store[id].present) THEN [store |-> store, res |-> NotFound]
       ELSE IF sendsCode /\ ~DecodeString(params["code"]).ok THEN [store |-> store, res |-> BadRequest]
       ELSE LET new == [store EXCEPT
                          ![id].title = IF sendsTitle THEN params["title"] ELSE @,
                          ![id].code = IF sendsCode THEN DecodeString(params["code"]).v ELSE @]
            IN [store |-> new, res |-> Ok(RemoteScript(new, id))]

\* terraform apply of a changed resource: ScriptV1Resource.Update against
\* the remote
SessionUpdate ==
    /\ last.op = "idle"
    /\ tfV1 # None
    /\ \E plan \in SessionPlans, up \in BOOLEAN :
          LET state == Deref(tfV1)
              request == ScriptV1Resource_Update(plan, state, TransportError, TransportError).calls[1]
              edited == RemoteEditScript(remote, up, request.params)
              calls == ScriptV1Resource_Update(plan, state, edited.res, TransportError).calls
              codeRes == IF Len(calls) = 2
                         THEN RemoteGetScriptCode(edited.store, up, calls[2].params)
                         ELSE TransportError
              out == ScriptV1Resource_Update(plan, state, edited.res, codeRes)
          IN /\ plan.Title # state.Title \/ plan.Code # state.Code
             /\ last' = [op |-> "session.Update",
                         in |-> [plan |-> plan, state |-> state, up |-> up], out |-> out]
             /\ remote' = edited.store
             /\ tfV1' = IF out.wrote THEN Some(out.state) ELSE tfV1
             /\ made' = IF out.wrote
                        THEN Some([title |-> ValueString(plan.Title), code |-> ValueString(plan.Code)])
                        ELSE IF edited.store = remote THEN made ELSE None

\* somebody else edits a stored script's title on the remote
RemoteEdit ==
    /\ last.op = "idle"
    /\ \E id \in {i \in Ids : remote[i].present}, t \in Titles :
          /\ remote[id].title # t
          /\ remote' = [remote EXCEPT ![id].title = t]
    /\ made' = None
    /\ UNCHANGED <<last, tfV1>>

SessionReturn ==
    /\ last.op # "idle"
    /\ last' = Idle
    /\ UNCHANGED <<remote, tfV1, made>>

NextSession ==
    \/ SessionCreate
    \/ SessionRead
    \/ SessionUpdate
    \/ SessionDelete
    \/ RemoteEdit
    \/ SessionReturn

SpecSession == Init /\ [][NextSession]_vars

----------------------------------------------------------------------------
(* The same remote seen by a landscape_script_v2 resource: it answers with *)
(* a modern script whose interpreter is the first line of the stored text  *)
(* when that line starts with "#!", and whose code is the rest.            *)

\* position of the first line feed of a text, 0 when there is none
FirstLineFeed(text) ==
    IF \E i \in 1..Len(text) : text[i] = 10
    THEN CHOOSE i \in 1..Len(text) : text[i] = 10 /\ \A j \in 1..(i - 1) : text[j] # 10
    ELSE 0

HasShebang(text) == Len(text) >= 2 /\ text[1] = 35 /\ text[2] = 33 /\ FirstLineFeed(text) > 0

RemoteScriptV2(store, id) ==
    LET text == store[id].code
        nl == FirstLineFeed(text)
    IN RawV2(id, store[id].title, sACTIVE, None, None,
             IF HasShebang(text) THEN Some(SubSeq(text, 3, nl - 1)) ELSE None,
             IF HasShebang(text) THEN Some(SubSeq(text, nl + 1, Len(text))) ELSE Some(text),
             None)

\* the answer to a create, edit or get call as a modern script
AsModernAnswer(res, store) ==
    IF IsSome(JSON200(res)) THEN Ok(RemoteScriptV2(store, Deref(JSON200(res)).id)) ELSE res

SessionV2Plans ==
    [Title : {TfVal(t) : t \in Titles},
     Code : {TfVal(SprintfShebang(sBash, sEcho)), TfVal(SprintfShebang(sBash, sHi)), TfVal(sHi)},
     Username : {TfNull},
     TimeLimit : {TfNull},
     AccessGroup : {TfNull}]

\* the resource in state is a landscape_script_v2 one
HoldsModern == tfV1 # None /\ "VersionNumber" \in DOMAIN Deref(tfV1)

SessionV2Create ==
    /\ last.op = "idle"
    /\ tfV1 = None
    /\ \E plan \in SessionV2Plans, id \in {i \in Ids : ~remote[i].present}, up \in BOOLEAN :
          LET request == ScriptV2Resource_Create(plan, TransportError).calls[1]
              created == RemoteCreateScript(remote, id, up, request.params)
              out == ScriptV2Resource_Create(plan, AsModernAnswer(created.res, created.store))
          IN /\ last' = [op |-> "session.V2Create", in |-> [plan |-> plan, up |-> up], out |-> out]
             /\ remote' = created.store
             /\ tfV1' = IF out.wrote THEN Some(out.state) ELSE None
             /\ made' = IF out.wrote
                        THEN Some([title |-> ValueString(plan.Title), code |-> ValueString(plan.Code)])
                        ELSE None

SessionV2Read ==
    /\ last.op = "idle"
    /\ HoldsModern
    /\ \E up \in BOOLEAN :
          LET current == Deref(tfV1)
              res == AsModernAnswer(RemoteGetScript(remote, up, ValueInt64(current.Id)), remote)
              out == ScriptV2Resource_Read(current, res)
          IN /\ last' = [op |-> "session.V2Read", in |-> [state |-> current, up |-> up], out |-> out]
             /\ tfV1' = IF out.wrote THEN Some(out.state) ELSE tfV1
             /\ UNCHANGED <<remote, made>>

SessionV2Update ==
    /\ last.op = "idle"
    /\ HoldsModern
    /\ \E plan \in SessionV2Plans, up \in BOOLEAN :
          LET state == Deref(tfV1)
              request == ScriptV2Resource_Update(plan, state, TransportError).calls[1]
              edited == RemoteEditScript(remote, up, request.params)
              out == ScriptV2Resource_Update(plan, state, AsModernAnswer(edited.res, edited.store))
          IN /\ plan.Title # state.Title \/ plan.Code # state.Code
             /\ last' = [op |-> "session.V2Update",
                         in |-> [plan |-> plan, state |-> state, up |-> up], out |-> out]
             /\ remote' = edited.store
             /\ tfV1' = IF out.wrote THEN Some(out.state) ELSE tfV1
             /\ made' = IF out.wrote
                        THEN Some([title |-> ValueString(plan.Title), code |-> ValueString(plan.Code)])
                        ELSE IF edited.store = remote THEN made ELSE None

\* terraform destroy of the modern resource: the script is archived, the
\* remote keeps it
SessionV2Delete ==
    /\ last.op = "idle"
    /\ HoldsModern
    /\ \E up \in BOOLEAN :
          LET out == ScriptV2Resource_Delete(Deref(tfV1), ~up)
          IN /\ last' = [op |-> "session.V2Delete", in |-> [state |-> Deref(tfV1), up |-> up], out |-> out]
             /\ tfV1' = IF HasError(out.diags) THEN tfV1 ELSE None
             /\ made' = None
             /\ UNCHANGED remote

\* the legacy resource's steps, taken when state holds no modern resource
LegacySteps ==
    /\ ~HoldsModern
    /\ \/ SessionCreate
       \/ SessionRead
       \/ SessionUpdate
       \/ SessionDelete

NextReread ==
    \/ LegacySteps
    \/ SessionV2Create
    \/ SessionV2Read
    \/ SessionV2Update
    \/ SessionV2Delete
    \/ RemoteEdit
    \/ SessionReturn

SpecReread == Init /\ [][NextReread]_vars

----------------------------------------------------------------------------
(* One landscape_script resource (the unified ScriptResource) against the  *)
(* remote, which answers with a script of the variant it was created as.   *)

\* an answer that carries a script, in the variant the store holds
InStoredVariant(res, store) ==
    IF IsSome(JSON200(res)) /\ store[Deref(JSON200(res)).id].variant = sV2
    THEN AsModernAnswer(res, store)
    ELSE res

SessionUnifiedPlans ==
    [Title : {TfVal(t) : t \in Titles},
     Code : {TfVal(sHi), TfVal(sEcho)},
     Username : {TfNull},
     TimeLimit : {TfNull},
     AccessGroup : {TfNull},
     Status : {TfNull, TfVal(sv1), TfVal(sACTIVE), TfVal(sARCHIVED)}]

SessionUnifiedCreate ==
    /\ last.op = "idle"
    /\ tfV1 = None
    /\ \E plan \in SessionUnifiedPlans, id \in {i \in Ids : ~remote[i].present}, up \in BOOLEAN :
          LET request == ScriptResource_Create(plan, TransportError, TransportError).calls[1]
              created == RemoteCreateScript(remote, id, up, request.params)
              res == InStoredVariant(created.res, created.store)
              calls == ScriptResource_Create(plan, res, TransportError).calls
              codeRes == IF Len(calls) = 2
                         THEN RemoteGetScriptCode(created.store, up, calls[2].params)
                         ELSE TransportError
              out == ScriptResource_Create(plan, res, codeRes)
          IN /\ last' = [op |-> "session.UnifiedCreate", in |-> [plan |-> plan, up |-> up], out |-> out]
             /\ remote' = created.store
             /\ tfV1' = IF out.wrote THEN Some(out.state) ELSE None
             /\ made' = IF out.wrote
                        THEN Some([title |-> ValueString(plan.Title), code |-> ValueString(plan.Code)])
                        ELSE None

SessionUnifiedRead ==
    /\ last.op = "idle"
    /\ tfV1 # None
    /\ \E up \in BOOLEAN :
          LET current == Deref(tfV1)
              res == InStoredVariant(RemoteGetScript(remote, up, ValueInt64(current.Id)), remote)
              calls == ScriptResource_Read(current, res, TransportError).calls
              codeRes == IF Len(calls) = 2
                         THEN RemoteGetScriptCode(remote, up, calls[2].params)
                         ELSE TransportError
              out == ScriptResource_Read(current, res, codeRes)
          IN /\ last' = [op |-> "session.UnifiedRead", in |-> [state |-> current, up |-> up], out |-> out]
             /\ tfV1' = IF out.wrote THEN Some(out.state) ELSE tfV1
             /\ UNCHANGED <<remote, made>>

SessionUnifiedUpdate ==
    /\ last.op = "idle"
    /\ tfV1 # None
    /\ \E plan \in SessionUnifiedPlans, up \in BOOLEAN :
          LET state == Deref(tfV1)
              request == ScriptResource_Update(plan, state, TRUE, TransportError, TransportError).calls[1]
              edited == RemoteEditScript(remote, up, request.params)
              res == InStoredVariant(RemoteGetScript(edited.store, up, ValueInt64(state.Id)), edited.store)
              calls == ScriptResource_Update(plan, state, ~up, res, TransportError).calls
              codeRes == IF Len(calls) = 3
                         THEN RemoteGetScriptCode(edited.store, up, calls[3].params)
                         ELSE TransportError
              out == ScriptResource_Update(plan, state, ~up, res, codeRes)
          IN /\ plan.Title # state.Title \/ plan.Code # state.Code \/ plan.Status # state.Status
             /\ last' = [op |-> "session.UnifiedUpdate",
                         in |-> [plan |-> plan, state |-> state, up |-> up], out |-> out]
             /\ remote' = edited.store
             /\ tfV1' = IF out.wrote THEN Some(out.state) ELSE tfV1
             /\ made' = IF out.wrote
                        THEN Some([title |-> ValueString(plan.Title), code |-> ValueString(plan.Code)])
                        ELSE IF edited.store = remote THEN made ELSE None

\* terraform destroy: a legacy script is removed, a modern one is left
SessionUnifiedDelete ==
    /\ last.op = "idle"
    /\ tfV1 # None
    /\ \E up \in BOOLEAN :
          LET out == ScriptResource_Delete(Deref(tfV1), ~up)
          IN /\ last' = [op |-> "session.UnifiedDelete", in |-> [state |-> Deref(tfV1), up |-> up], out |-> out]
             /\ remote' = IF Len(out.calls) = 1
                          THEN RemoteRemoveScript(remote, up, out.calls[1].params)
                          ELSE remote
             /\ tfV1' = IF HasError(out.diags) THEN tfV1 ELSE None
             /\ made' = None

NextUnified ==
    \/ SessionUnifiedCreate
    \/ SessionUnifiedRead
    \/ SessionUnifiedUpdate
    \/ SessionUnifiedDelete
    \/ RemoteEdit
    \/ SessionReturn

SpecUnified == Init /\ [][NextUnified]_vars

\* C8: after ScriptV1Resource.Create with title t and code c succeeded
\* against a remote that stores the base64-decoded code it was sent, a Read
\* of the resulting id that reaches the remote produces a state whose code
\* equals c byte for byte, whose title equals t and whose status is V1.
C8_LegacyRoundTrip ==
    (last.op = "session.Read" /\ made # None /\ last.in.up) =>
        /\ last.out.wrote
        /\ last.out.state.Code = <<"known", made[1].code>>
        /\ last.out.state.Title = <<"known", made[1].title>>
        /\ last.out.state.Status = <<"known", <<86, 49>>>>
        /\ last.out.state.Id = last.in.state.Id

\* a Read that returned the three bytes 255, 0, 10 a Create had sent
C8_Witness ==
    /\ last.op = "session.Read"
    /\ made # None
    /\ made[1].code = sBin
    /\ last.out.wrote
    /\ last.out.state.Code = TfVal(sBin)

----------------------------------------------------------------------------
(* Properties of reads that meet an undecodable or unexpected payload *)

\* a payload that is neither a legacy nor a modern script: not a JSON
\* object, or an object whose attachments mix strings and objects
NeitherShape(p) ==
    \/ p.json # "object"
    \/ /\ IsSome(p.attachments)
       /\ \E i \in 1..Len(Deref(p.attachments)) : Deref(p.attachments)[i].k = "str"
       /\ \E i \in 1..Len(Deref(p.attachments)) : Deref(p.attachments)[i].k = "obj"

ReadGotNeitherShape ==
    /\ IsKnown(IF last.op = "ScriptResource.Read" THEN last.in.state.Id ELSE last.in.id)
    /\ last.in.res.kind = "http" /\ last.in.res.status = 200
    /\ NeitherShape(last.in.res.body)

\* C9: when the payload of a read decodes as neither the modern nor the
\* legacy shape, the read ends with an error diagnostic and writes no state
\* record; no zero-valued record is stored in its place.
C9_UndecodableNotStored ==
    (/\ last.op \in {"ScriptResource.Read", "v1ScriptDataSource.Read", "ScriptDataSource.Read"}
     /\ ReadGotNeitherShape) =>
        /\ HasError(last.out.diags)
        /\ ~last.out.wrote

\* the part of C9 the unified resource and data source keep
C9_UnifiedReadsRefuse ==
    (/\ last.op \in {"ScriptResource.Read", "ScriptDataSource.Read"}
     /\ ReadGotNeitherShape) =>
        /\ HasError(last.out.diags)
        /\ ~last.out.wrote
        /\ ~last.out.panic

\* C10: the script_type the unified resource stores equals the variant that
\* was decoded from the payload; the script_type of prior state decides only
\* which decode is tried first, also when the payload decodes as the other
\* variant.
C10_StoredTypeIsDecodedVariant ==
    (/\ last.op = "ScriptResourceWithType.Read"
     /\ last.in.state.ScriptType \in {TfVal(sV1), TfVal(sV2)}
     /\ last.out.wrote) =>
        last.out.state.ScriptType = TfVal(IF last.out.arm = "V1" THEN sV1 ELSE sV2)

----------------------------------------------------------------------------
(* Properties of input checks, the code fetch and error reporting *)

CreateOps == {"ScriptV1Resource.Create", "ScriptV2Resource.Create", "ScriptResource.Create"}
DataSourceReadOps ==
    {"ScriptDataSource.Read", "ScriptV1DataSource.Read", "v1ScriptDataSource.Read",
     "scriptDataSource.Read"}

\* the operation was handed a null or unknown required input
RequiredInputMissing ==
    \/ /\ last.op \in CreateOps
       /\ ~IsKnown(last.in.plan.Title) \/ ~IsKnown(last.in.plan.Code)
    \/ /\ last.op \in DataSourceReadOps
       /\ ~IsKnown(last.in.id)

C11_CheckedOperationsRefuse ==
    (RequiredInputMissing /\ last.op # "ScriptV1Resource.Create") =>
        /\ HasError(last.out.diags)
        /\ last.out.calls = <<>>
        /\ ~last.out.wrote

\* the status of the plan, upper-cased, is not one of the four statuses
StatusUnrecognized ==
    /\ last.op = "ScriptResource.Create"
    /\ IsKnown(last.in.plan.Status)
    /\ ToUpper(ValueString(last.in.plan.Status)) \notin {sV1, sACTIVE, sARCHIVED, sREDACTED}

\* C12: ScriptResource.Create with a status that, upper-cased, is not one of
\* V1, ACTIVE, ARCHIVED, REDACTED ends with an error diagnostic, issues no
\* remote call and writes no state; the diagnostic is 'Invalid script
\* status' whenever title and code are there.
C12_InvalidStatusRefused ==
    StatusUnrecognized =>
        /\ HasError(last.out.diags)
        /\ last.out.calls = <<>>
        /\ ~last.out.wrote
        /\ (IsKnown(last.in.plan.Title) /\ IsKnown(last.in.plan.Code))
              => last.out.diags = <<"Invalid script status">>

\* a Create with title, code and the status "V2" was refused, while the
\* remote stood ready to answer 200
C12_Witness ==
    /\ StatusUnrecognized
    /\ last.in.plan.Status = TfVal(sV2)
    /\ IsKnown(last.in.plan.Title) /\ IsKnown(last.in.plan.Code)
    /\ last.in.res.kind = "http" /\ last.in.res.status = 200
    /\ last.out.diags = <<"Invalid script status">>
    /\ last.out.calls = <<>>

\* the operation ended without error and wrote the state of a legacy script
YieldedLegacyState ==
    /\ last.op \in {"ScriptV1Resource.Create", "ScriptV1Resource.Read", "ScriptV1Resource.Update",
                    "ScriptV1DataSource.Read", "ScriptResource.Create", "ScriptResource.Read",
                    "ScriptResource.Update"}
    /\ last.out.wrote
    /\ ~HasError(last.out.diags)
    /\ last.op \in {"ScriptResource.Read", "ScriptResource.Update"} =>
          /\ Discriminator(Deref(JSON200(last.in.res))).v = sV1
          /\ AsV1Script(Deref(JSON200(last.in.res))).ok
    /\ last.op = "ScriptResource.Create" => last.out.calls[1].params["script_type"] = sV1

GetScriptCodeCalls ==
    {i \in 1..Len(last.out.calls) :
        /\ last.out.calls[i].api = "InvokeLegacyAction"
        /\ last.out.calls[i].action = "GetScriptCode"}

CreateReadUpdateOps ==
    CreateOps \cup DataSourceReadOps \cup
    {"ScriptV1Resource.Read", "ScriptV1Resource.Update", "ScriptV2Resource.Read",
     "ScriptV2Resource.Update", "ScriptResource.Read", "ScriptResource.Update",
     "ScriptResourceWithType.Read", "v1ScriptDataSourceWithCode.Read",
     "ScriptV2AttachmentResource.Update", "ScriptAttachmentResource.Update",
     "ScriptAttachmentResourceByFilename.Update"}

\* C14: a create, read or update operation that ends with an error
\* diagnostic has written no state: state is written only when no error was
\* recorded before, and none is recorded after.
C14_NoStateWithError ==
    (last.op \in CreateReadUpdateOps /\ HasError(last.out.diags)) => ~last.out.wrote

\* the part of C14 that holds: every operation but the two Reads of the
\* landscape_v1_script data source
C14_ReturningOperationsCommitNothing ==
    (/\ last.op \in CreateReadUpdateOps \ {"v1ScriptDataSource.Read", "v1ScriptDataSourceWithCode.Read"}
     /\ HasError(last.out.diags)) => ~last.out.wrote

\* the calls of the last operation hold a GetScript for the id in state
\* somewhere after an EditScript
RereadAfterEdit ==
    \E i, j \in 1..Len(last.out.calls) :
        /\ i < j
        /\ last.out.calls[i].api = "InvokeLegacyAction"
        /\ last.out.calls[i].action = "EditScript"
        /\ last.out.calls[j] = CallGetScript(ValueInt64(last.in.state.Id))

\* C15: an Update of a script resource that wrote state after its edit call
\* succeeded got that state by re-reading the script by id: a GetScript
\* call follows the EditScript call.  Stated for the legacy, the modern and
\* the unified resource.
C15_UpdateRereads ==
    (/\ last.op \in {"ScriptV1Resource.Update", "ScriptV2Resource.Update", "ScriptResource.Update"}
     /\ last.out.wrote) => RereadAfterEdit

\* the part of C15 that holds: the unified resource re-reads
C15_UnifiedUpdateRereads ==
    (last.op = "ScriptResource.Update" /\ last.out.wrote) =>
        /\ RereadAfterEdit
        /\ Len(last.out.calls) \in {2, 3}

\* the operation issued its mutating call and the remote answered it with a
\* status other than 200
MutationRejected ==
    /\ last.op \in {"ScriptResource.Update", "ScriptV1Resource.Delete", "ScriptResource.Delete",
                    "ScriptV2Resource.Delete"}
    /\ Len(last.out.calls) > 0
    /\ \/ last.out.calls[1].api = "ArchiveScript"
       \/ last.out.calls[1].action \in {"EditScript", "RemoveScript"}
    /\ last.in.mres.kind = "http"
    /\ last.in.mres.status # 200

\* C16: when the remote rejects the mutating call of an Update or a Delete
\* (EditScript, RemoveScript, ArchiveScript) with a non-success status, the
\* operation reports an error diagnostic.
C16_RejectedMutationReported ==
    MutationRejected => HasError(last.out.diags)

\* what the handlers do report: a mutating call that fails in transport
C16_TransportFailureReported ==
    (/\ last.op \in {"ScriptResource.Update", "ScriptV1Resource.Delete", "ScriptResource.Delete",
                     "ScriptV2Resource.Delete"}
     /\ Len(last.out.calls) > 0
     /\ IsErr(last.in.mres)) =>
        /\ HasError(last.out.diags)
        /\ ~last.out.wrote
        /\ Len(last.out.calls) = 1

\* the first call of the operation (create, read or edit) was answered with
\* a status other than 200
PrimaryCallRefused ==
    /\ last.op \in (CreateOps \cup DataSourceReadOps \cup
                    {"ScriptV1Resource.Read", "ScriptV1Resource.Update", "ScriptV2Resource.Read",
                     "ScriptV2Resource.Update", "ScriptResource.Read", "ScriptResourceWithType.Read",
                     "v1ScriptDataSourceWithCode.Read"})
    /\ Len(last.out.calls) > 0
    /\ last.in.res.kind = "http"
    /\ last.in.res.status # 200

\* C17: for every non-200 response to a create, read or edit call, with or
\* without a 400 or 404 body and with or without a message in it, the
\* operation ends with an error diagnostic; it never dereferences an absent
\* body or an absent message.
C17_RefusalReportedWithoutPanic ==
    PrimaryCallRefused =>
        /\ ~last.out.panic
        /\ HasError(last.out.diags)
        /\ ~last.out.wrote

\* the part of C17 that holds: a 400 answer that has a message ends every
\* operation with an error diagnostic
C17_MessagePresentReported ==
    (/\ PrimaryCallRefused
     /\ last.in.res.status = 400
     /\ IsSome(last.in.res.msg)) =>
        /\ ~last.out.panic
        /\ HasError(last.out.diags)
        /\ ~last.out.wrote

----------------------------------------------------------------------------
(* Properties of the projections' absent fields and of ImportState *)

\* the legacy script the last operation decoded from its script response
DecodedV1 == AsV1Script(Deref(JSON200(last.in.res))).v

\* C18: the projection of a legacy script represents an absent creator id,
\* creator name or creator email as null inside created_by, never as 0 or
\* the empty string, and an absent access_group, username or time_limit as
\* null.
C18_AbsentCreatorFieldsNull ==
    YieldedLegacyState =>
        LET createdBy == last.out.state.CreatedBy[2]
        IN /\ ~IsSome(DecodedV1.Creator.id) => createdBy.id = TfNull
           /\ ~IsSome(DecodedV1.Creator.name) => createdBy.name = TfNull
           /\ ~IsSome(DecodedV1.Creator.email) => createdBy.email = TfNull
           /\ ~IsSome(DecodedV1.AccessGroup) => last.out.state.AccessGroup = TfNull
           /\ ~IsSome(DecodedV1.Username) => last.out.state.Username = TfNull
           /\ ~IsSome(DecodedV1.TimeLimit) => last.out.state.TimeLimit = TfNull

\* the part of C18 that holds: the optional fields outside created_by
C18_OptionalScalarsNull ==
    YieldedLegacyState =>
        /\ ~IsSome(DecodedV1.AccessGroup) => last.out.state.AccessGroup = TfNull
        /\ ~IsSome(DecodedV1.Username) => last.out.state.Username = TfNull
        /\ ~IsSome(DecodedV1.TimeLimit) => last.out.state.TimeLimit = TfNull

UnifiedOps == {"ScriptResource.Create", "ScriptResource.Read", "ScriptResource.Update"}
ModernOnlyFields ==
    {"VersionNumber", "CreatedAt", "LastEditedAt", "IsEditable", "IsExecutable", "IsRedactable",
     "LastEditedBy", "ScriptProfiles"}

\* the unified resource wrote the projection of a modern script
YieldedModernState ==
    \/ /\ last.op = "v2ScriptToState"
       /\ ~last.out.panic
    \/ /\ last.op \in UnifiedOps
       /\ last.out.wrote
       /\ ~YieldedLegacyState

\* C19: when a legacy script is projected into the unified record,
\* version_number, created_at, last_edited_at, is_editable, is_executable,
\* is_redactable, last_edited_by and script_profiles are fields of the
\* record and all null; when a modern script is projected, the email inside
\* created_by is null.
C19_OtherVariantFieldsNull ==
    /\ (last.op \in UnifiedOps /\ YieldedLegacyState) =>
          /\ ModernOnlyFields \subseteq DOMAIN last.out.state
          /\ \A f \in ModernOnlyFields : last.out.state[f] = TfNull
    /\ (YieldedModernState /\ IsKnown(last.out.state.CreatedBy)) =>
          /\ "email" \in DOMAIN last.out.state.CreatedBy[2]
          /\ last.out.state.CreatedBy[2].email = TfNull

\* the unified resource read a legacy script with one attachment and wrote
\* its record, creator and all
C19_Witness ==
    /\ last.op = "ScriptResource.Read"
    /\ YieldedLegacyState
    /\ last.out.state.Status = TfVal(sV1)
    /\ last.out.state.Attachments = TfVal(<<[id |-> TfNull, filename |-> TfVal(sA)]>>)
    /\ last.out.state.VersionNumber = TfNull
    /\ IsKnown(last.out.state.CreatedBy)

\* the integer the imported id writes, if it writes one
ImportedValue == (CHOOSE c \in ImportCases : c.text = last.in.id).value

\* C20: ScriptV1Resource.ImportState with an id that writes a base-10 64-bit
\* integer stores a state whose id is that integer and whose other
\* attributes are all null; with an empty or non-integer id it returns
\* 'Invalid import ID' and writes no state; it issues no remote call.
C20_ImportSeedsIdOnly ==
    last.op = "ScriptV1Resource.ImportState" =>
        /\ last.out.calls = <<>>
        /\ IsSome(ImportedValue) =>
              /\ last.out.wrote
              /\ ~HasError(last.out.diags)
              /\ last.out.state.Id = TfVal(Deref(ImportedValue))
              /\ \A f \in DOMAIN last.out.state \ {"Id"} : last.out.state[f] = TfNull
              /\ {"Title", "Code", "CreatedBy", "Status", "Attachments"} \subseteq DOMAIN last.out.state
        /\ ~IsSome(ImportedValue) =>
              /\ last.out.diags = <<"Invalid import ID">>
              /\ ~last.out.wrote

\* the id "007" was imported as 7
C20_Witness ==
    /\ last.op = "ScriptV1Resource.ImportState"
    /\ last.in.id = <<48, 48, 55>>
    /\ last.out.wrote
    /\ last.out.state.Id = TfVal(7)
    /\ last.out.state.Title = TfNull

----------------------------------------------------------------------------
(* Properties of sessions: re-reads *)

RecordVariant(state) == IF state.Status = TfVal(sV1) THEN "legacy" ELSE "modern"

\* the variant a plan of the unified resource selects
SelectedVariant(plan) ==
    IF IsNull(plan.Status) \/ IsUnknown(plan.Status) \/ ToUpper(ValueString(plan.Status)) = sV1
    THEN "legacy" ELSE "modern"

\* C22: against a remote that keeps each script's variant, the record the
\* unified resource stores after a successful Create has the variant the
\* plan selected, and the record stored by a successful Read or Update has
\* the variant of the record it replaces, whatever status the plan of the
\* Update names.
C22_VariantKept ==
    /\ (last.op = "session.UnifiedCreate" /\ last.out.wrote) =>
          RecordVariant(last.out.state) = SelectedVariant(last.in.plan)
    /\ (last.op \in {"session.UnifiedRead", "session.UnifiedUpdate"} /\ last.out.wrote) =>
          RecordVariant(last.out.state) = RecordVariant(last.in.state)

\* an Update whose plan names a modern status was applied to a legacy
\* resource and the stored record stayed legacy
C22_Witness ==
    /\ last.op = "session.UnifiedUpdate"
    /\ last.out.wrote
    /\ ~HasError(last.out.diags)
    /\ SelectedVariant(last.in.plan) = "modern"
    /\ RecordVariant(last.in.state) = "legacy"
    /\ RecordVariant(last.out.state) = "legacy"


----------------------------------------------------------------------------
(* Properties of the code fetch *)

\* the script call of a legacy Create, Read or Update went through and the
\* GetScriptCode call that followed was answered with a status other than 200
CodeFetchRefused ==
    /\ last.op \in {"ScriptV1Resource.Create", "ScriptV1Resource.Read", "ScriptV1Resource.Update",
                    "ScriptResource.Read", "ScriptResource.Update"}
    /\ Cardinality(GetScriptCodeCalls) = 1
    /\ last.in.codeRes.kind = "http"
    /\ last.in.codeRes.status # 200

\* C23: when the script call succeeded and the GetScriptCode call that
\* follows is answered with a non-200 response, the operation ends with an
\* error diagnostic about the script code, without a panic and without
\* writing state.
C23_CodeFetchRefusalReported ==
    CodeFetchRefused =>
        /\ ~last.out.panic
        /\ HasError(last.out.diags)
        /\ ~last.out.wrote

\* the part of C23 that holds: the fetchV1Code that the legacy resource's
\* Read and Update call reports the refusal
C23_CheckedFetchReports ==
    (CodeFetchRefused /\ last.op \in {"ScriptV1Resource.Read", "ScriptV1Resource.Update"}) =>
        /\ ~last.out.panic
        /\ last.out.diags = <<"Getting script code failed">>
        /\ ~last.out.wrote


----------------------------------------------------------------------------
(* Properties of readScript *)

\* readScript of the unified resource stored a record
ReadScriptStored ==
    /\ last.op \in {"ScriptResource.Read", "ScriptResource.Update"}
    /\ last.out.wrote

\* the payload readScript was handed
ReadScriptPayload == Deref(JSON200(last.in.res))

\* the record is the legacy projection of the payload, with the fetched code
StoredThroughLegacyArm ==
    /\ AsV1Script(ReadScriptPayload).ok
    /\ Cardinality(GetScriptCodeCalls) = 1
    /\ last.out.state =
          v1ScriptWithCodeToState(AsV1Script(ReadScriptPayload).v,
                                  AsLegacyScriptCode(Deref(JSON200(last.in.codeRes))).v).state

\* the record is the modern projection of the payload
StoredThroughModernArm ==
    /\ AsV2Script(ReadScriptPayload).ok
    /\ GetScriptCodeCalls = {}
    /\ last.out.state = v2ScriptToState(AsV2Script(ReadScriptPayload).v).state

----------------------------------------------------------------------------
(* Properties of the modern projections on partial payloads *)

\* C25: none of the three projections of a modern script faults, whichever
\* optional fields the payload leaves out: each returns a record.
C25_ModernProjectionNeverFaults ==
    last.op \in V2ProjectionOps => ~last.out.panic

\* the part of C25 that holds: a script without created_by, or whose
\* created_by has an id, is projected without a fault, and created_by,
\* last_edited_by, version_number, time_limit, username and code are null in
\* the record when the payload leaves them out
C25_FaultsOnlyOnCreatorWithoutId ==
    (/\ last.op \in V2ProjectionOps
     /\ IsSome(last.in.v2Script.CreatedBy) => IsSome(Deref(last.in.v2Script.CreatedBy).id)) =>
        /\ ~last.out.panic
        /\ ~IsSome(last.in.v2Script.CreatedBy) => IsNull(last.out.state.CreatedBy)
        /\ ~IsSome(last.in.v2Script.LastEditedBy) => IsNull(last.out.state.LastEditedBy)
        /\ ~IsSome(last.in.v2Script.VersionNumber) => IsNull(last.out.state.VersionNumber)
        /\ ~IsSome(last.in.v2Script.TimeLimit) => IsNull(last.out.state.TimeLimit)
        /\ ~IsSome(last.in.v2Script.Username) => IsNull(last.out.state.Username)
        /\ ~IsSome(last.in.v2Script.Code) => IsNull(last.out.state.Code)


----------------------------------------------------------------------------
(* Properties of the attachment resources *)

\* the V2 attachment resource fetched the content and the remote answered 200
ContentFetched ==
    /\ last.op \in {"ScriptV2AttachmentResource.Create", "ScriptV2AttachmentResource.Read"}
    /\ \E i \in 1..Len(last.out.calls) : last.out.calls[i].api = "GetScriptAttachment"
    /\ last.in.contentRes.kind = "http"
    /\ last.in.contentRes.status = 200

\* C26: a 200 answer to the content fetch of a modern attachment is never
\* reported as an error: Create and Read then write a state whose content
\* is the content the remote returned, the empty content included.
C26_FetchedContentStored ==
    ContentFetched =>
        /\ ~HasError(last.out.diags)
        /\ last.out.wrote
        /\ last.out.state.Content = TfVal(BodyString(last.in.contentRes))

\* the part of C26 that holds: a 200 answer with a body that is not empty
\* is stored as it came
C26_NonEmptyContentStored ==
    (ContentFetched /\ BodyString(last.in.contentRes) # <<>>) =>
        /\ ~HasError(last.out.diags)
        /\ last.out.wrote
        /\ last.out.state.Content = TfVal(BodyString(last.in.contentRes))


AttachmentCreateOps ==
    {"ScriptV2AttachmentResource.Create", "ScriptAttachmentResource.Create",
     "ScriptAttachmentResourceByFilename.Create"}

\* the attachments of the script re-read after the upload, None when the
\* answer does not decode as a modern script
RereadAttachments ==
    IF IsSome(JSON200(last.in.res)) /\ AsV2Script(Deref(JSON200(last.in.res))).ok
    THEN AsV2Script(Deref(JSON200(last.in.res))).v.Attachments
    ELSE None

\* the upload went through and the owning script was re-read
UploadedAndReread ==
    /\ last.op \in AttachmentCreateOps
    /\ IsSome(JSON200(last.in.createRes))
    /\ IsSome(JSON200(last.in.res))

\* C27: a Create of an attachment resource that writes state stores the id
\* of the first attachment of the re-read script whose filename is the
\* planned one; when the re-read script is not modern or has no attachment
\* of that filename, Create ends with an error and writes no state.
C27_StoredIdFoundByFilename ==
    LET at == FirstWithFilename(RereadAttachments, ValueString(last.in.plan.Filename))
    IN /\ (last.op \in AttachmentCreateOps /\ last.out.wrote) =>
             /\ at # 0
             /\ last.out.state.Id = TfVal(Deref(RereadAttachments)[at].Id)
             /\ last.out.state.Filename = last.in.plan.Filename
       /\ (UploadedAndReread /\ at = 0) =>
             /\ HasError(last.out.diags)
             /\ ~last.out.wrote

\* the part of C27 that holds: the V2 attachment resource and the attachment
\* resource that reads by filename
C27_FilenameKeyedCreates ==
    LET at == FirstWithFilename(RereadAttachments, ValueString(last.in.plan.Filename))
    IN /\ (last.op \in (AttachmentCreateOps \ {"ScriptAttachmentResource.Create"}) /\ last.out.wrote) =>
             /\ at # 0
             /\ last.out.state.Id = TfVal(Deref(RereadAttachments)[at].Id)
             /\ last.out.state.Filename = last.in.plan.Filename
       /\ (UploadedAndReread /\ last.op # "ScriptAttachmentResource.Create" /\ at = 0) =>
             /\ HasError(last.out.diags)
             /\ ~last.out.wrote


----------------------------------------------------------------------------
(* Properties of ScriptResource.Create *)

\* Create of the unified resource got past its checks of title, code and
\* status
UnifiedCreateSent ==
    /\ last.op = "ScriptResource.Create"
    /\ IsKnown(last.in.plan.Title)
    /\ IsKnown(last.in.plan.Code)
    /\ ~StatusUnrecognized

CreateScriptCalls ==
    {i \in 1..Len(last.out.calls) :
        /\ last.out.calls[i].api = "InvokeLegacyAction"
        /\ last.out.calls[i].action = "CreateScript"}

\* C28: Create of the unified resource picks the variant from the status
\* alone.  A status that is null, unknown or V1 in any letter case gives one
\* CreateScript call with script_type V1, followed by one GetScriptCode call
\* once the script was created; ACTIVE, ARCHIVED or REDACTED in any letter
\* case gives one CreateScript call with script_type V2 and no
\* GetScriptCode call.  The code sent is the base64 text of the planned
\* code.
C28_VariantFromStatusAlone ==
    UnifiedCreateSent =>
        /\ CreateScriptCalls = {1}
        /\ last.out.calls[1].params["code"] = EncodeToString(ValueString(last.in.plan.Code))
        /\ IF SelectedVariant(last.in.plan) = "legacy"
           THEN /\ last.out.calls[1].params["script_type"] = sV1
                /\ GetScriptCodeCalls =
                      IF IsSome(JSON200(last.in.res)) /\ AsV1Script(Deref(JSON200(last.in.res))).ok
                      THEN {2} ELSE {}
           ELSE /\ last.out.calls[1].params["script_type"] = sV2
                /\ GetScriptCodeCalls = {}
        /\ Len(last.out.calls) = Cardinality(CreateScriptCalls) + Cardinality(GetScriptCodeCalls)

\* a plan with status "v1" created a legacy script and fetched its code
C28_Witness ==
    /\ UnifiedCreateSent
    /\ last.in.plan.Status = TfVal(sv1)
    /\ last.out.calls[1].params["script_type"] = sV1
    /\ GetScriptCodeCalls = {2}
    /\ last.out.wrote

\* a plan with status "Archived" created a modern script without a code fetch
C28_WitnessModern ==
    /\ UnifiedCreateSent
    /\ last.in.plan.Status = TfVal(sArchived)
    /\ last.out.calls[1].params["script_type"] = sV2
    /\ GetScriptCodeCalls = {}
    /\ last.out.wrote


----------------------------------------------------------------------------
(* Properties of Update's request: what is left out *)

AllUpdateOps == {"ScriptV1Resource.Update", "ScriptV2Resource.Update", "ScriptResource.Update"}

----------------------------------------------------------------------------
(* Properties of the provider's Configure *)

\* the values Configure works with: the configuration's when it is not
\* null, else the environment's
ResolvedOf(name) == Resolved(last.in.config[name], last.in.env[name])

EmailPairComplete == ResolvedOf("Email") # <<>> /\ ResolvedOf("Password") # <<>>
KeyPairComplete == ResolvedOf("AccessKey") # <<>> /\ ResolvedOf("SecretKey") # <<>>
EmailPairHalf == (ResolvedOf("Email") = <<>>) # (ResolvedOf("Password") = <<>>)
KeyPairHalf == (ResolvedOf("AccessKey") = <<>>) # (ResolvedOf("SecretKey") = <<>>)

\* what the claim asks of the resolved values
CredentialsResolve ==
    /\ ResolvedOf("APIURL") # <<>>
    /\ EmailPairComplete \/ KeyPairComplete
    /\ ~EmailPairHalf
    /\ ~KeyPairHalf

====
